---- MODULE Spec2Model ----
(***************************************************************************)
(* Model of the notification debouncer of rancher/apiserver                *)
(* (pkg/subscribe/debouncer.go, last-write-wins variant, lines 1-91).      *)
(*                                                                         *)
(* One goroutine executes debouncer.Run.  It selects over the context's    *)
(* Done channel, the input channel inCh and the timer channel, and sends   *)
(* on the unbuffered output channel outCh.  The environment is a producer  *)
(* that writes to and closes inCh, a consumer that reads outCh, the        *)
(* runtime timer, and whoever cancels the context.                         *)
(***************************************************************************)
EXTENDS Naturals, Sequences, FiniteSets

\* ---- bounds ----------------------------------------------------------
MaxEvents == 3      \* events the producer writes in one run
MaxRev == 2         \* revisions are drawn from 0..MaxRev; 0 stands for ""
MaxInCap == 1       \* capacity of the input channel is drawn from 0..MaxInCap
MaxTime == 3        \* the clock runs from 0 to MaxTime
DebounceRate == 2   \* d.debounceRate, in clock ticks
MaxPumps == 2       \* watches a session opens on the store in one run
MaxUpstream == 2    \* events the upstream watches of a session produce in one run
MaxBurstExpiries == 1   \* timer expiries observed in the middle of a burst
MaxChain == 3       \* a middleware chain has 0..MaxChain elements
MaxPath == 3        \* a request path has 0..MaxPath characters
MaxSuffixLen == 2   \* a configured suffix has 0..MaxSuffixLen characters
MaxSuffixes == 2    \* Cache is configured with 0..MaxSuffixes suffixes
MaxChunk == 2       \* one call of Write passes 0..MaxChunk bytes
MaxWrites == 2      \* a handler calls Write at most MaxWrites times

\* ---- values ----------------------------------------------------------
NoError == "nil"
WatchError == "watch error"

SubscriptionModeNotification == "resource.changes"

\* The two implementations of debouncer.Run in pkg/subscribe/debouncer.go.
LastWriteWins == "latestRV"
Queued == "dbcQueueCh"

\* make(chan types.APIEvent, 1000)
QueueCap == 1000

FirstNotification == "FirstNotification"
TimerStarted == "TimerStarted"
TimerStopped == "TimerStopped"

DebouncerState == {FirstNotification, TimerStarted, TimerStopped}

Revs == 0..MaxRev
EmptyRV == 0

\* types.APIEvent, reduced to the fields the debouncer reads or writes.
\* Data stands for every other field of the event.
APIEvent == [Name : STRING, Revision : Revs, Data : STRING, Error : STRING]

\* The events a producer writes: change events carrying a revision and an
\* object, and terminal error events.
ChangeEvents == { [Name |-> "resource.change", Revision |-> r, Data |-> "obj", Error |-> NoError] : r \in Revs }
ErrorEvents == { [Name |-> "resource.error", Revision |-> r, Data |-> "", Error |-> WatchError] : r \in Revs }
InEvents == ChangeEvents \cup ErrorEvents

\* types.APIEvent{Name: string(SubscriptionModeNotification), Revision: rv}
Notification(rv) == [Name |-> SubscriptionModeNotification, Revision |-> rv, Data |-> "", Error |-> NoError]

VARIABLES
    state,      \* Run's local variable state
    latestRV,   \* d.latestRV
    timer,      \* d.timer: "stopped", "running", or "fired" (a value waits in timer.C)
    inCh,       \* d.inCh: the buffered elements, oldest first
    inCap,      \* capacity of d.inCh (0 = unbuffered)
    inClosed,   \* the producer has closed d.inCh
    outVal,     \* the value Run is sending on d.outCh while it is blocked in a send
    outClosed,  \* close(d.outCh) has run
    pc,         \* position of Run: "select", "sendErr", "sendFirst", "sendTimer", "done"
    ctxDone,    \* ctx.Done() is closed
    ctxAtRun,   \* history: ctx was already cancelled when Run was called
    reading,    \* the consumer is still receiving from NotificationsChan()
    received,   \* history: events Run has received from d.inCh, in order
    emittedAtRecv,  \* history: Len(emitted) at the moment each element of received was received
    emitted,    \* history: events the consumer has received from d.outCh, in order
    armed,      \* history: number of times Run armed the timer (timer.Reset)
    rcvdAtCancel,   \* history: Len(received) when the context was cancelled
    rcvdAtExpire,   \* history: Len(received) when the timer first expired (0: not yet)
    closedAfterExpire,  \* history: the input was closed after the first timer expiry
    now,        \* the clock
    deadline,   \* the time at which the running timer expires
    emitAt,     \* history: the time at which each element of emitted was received
    variant,    \* which of the two implementations of Run is running
    dbcQueueCh, \* d.dbcQueueCh (queued variant): the buffered elements, oldest first
    queueClosed,    \* close(d.dbcQueueCh) has run
    watchers,   \* watch session: the watch keys that have a registered pump
    pumps,      \* watch session: per watch key, the running pumps in launch order
    result,     \* watch session: per watch key, the events put on the outbound channel
    taken,      \* history: number of events taken from the upstream watches
    watchCalls, \* history: number of invocations of the store's watch
    lastMsg,    \* history: the outcome of the last start or stop request: the
                \* error of a start, "nil" (pump launched), "active" (start for a
                \* key that had a pump), "stopped" or "unmatched" (stop); "none"
                \* before the first request and once the session is closing
    sessState,  \* watch session: "open", "closing" (close() running) or "closed"
    endedBy,    \* watch session: why it was closed ("none" while open)
    terminal,   \* watch session: the events without scope put on the outbound channel
    emitsStop,  \* watch session: whether it answers a stop request with resource.stop
    chain,      \* Chain.Handler: the receiver m, a slice of middleware
    idx,        \* Chain.Handler: the loop variable i, counted from 1
    rtn,        \* Chain.Handler: the handler built so far, outermost wrapper first
    cpc,        \* Chain.Handler and the call of its result: "build", "serve", "return", "done"
    todo,       \* the wrappers of the served handler that have not been entered yet
    stack,      \* the wrappers that have called their next handler and not returned
    executionOrder, \* what the middleware and the handler have recorded, in order
    path,       \* Cache: r.URL.Path, a sequence of characters
    suffixes,   \* Cache: the configured suffixes, each a sequence of characters
    cacheControl,   \* Cache: the value of the response's Cache-Control header ("": none)
    handlerCalls,   \* Cache: number of calls of the wrapped handler
    kpc,        \* Cache: "call" before the request is served, "done" after
    ctHeader,   \* ContentTypeWriter: the value of the Content-Type header ("": none)
    body,       \* ContentTypeWriter: the bytes the wrapped ResponseWriter has received
    writes,     \* history: the arguments of the calls of Write, in order
    presetCT,   \* history: the last value the handler itself gave the header
    heap,       \* route variables: the maps in memory, by reference
    reqCtx,     \* route variables: the reference stored in the request's context (0: none)
    passedIn,   \* history: the contents of the caller's map when SetRouteVars was called
    got         \* route variables: the reference the last GetRouteVars returned (0: no call yet)

vars == <<state, latestRV, timer, inCh, inCap, inClosed, outVal, outClosed, pc,
          ctxDone, ctxAtRun, reading, received, emittedAtRecv, emitted, armed,
          rcvdAtCancel, rcvdAtExpire, closedAfterExpire, now, deadline, emitAt,
          variant, dbcQueueCh, queueClosed,
          watchers, pumps, result, taken, watchCalls, lastMsg, sessState,
          endedBy, terminal, emitsStop,
          chain, idx, rtn, cpc, todo, stack, executionOrder,
          path, suffixes, cacheControl, handlerCalls, kpc,
          ctHeader, body, writes, presetCT,
          heap, reqCtx, passedIn, got>>

\* The variables of one debouncer.
debVars == <<state, latestRV, timer, inCh, inCap, inClosed, outVal, outClosed, pc,
             ctxDone, ctxAtRun, reading, received, emittedAtRecv, emitted, armed,
             rcvdAtCancel, rcvdAtExpire, closedAfterExpire, now, deadline, emitAt,
             variant, dbcQueueCh, queueClosed>>

\* The variables of the watch session.
endVars == <<endedBy, terminal>>
sessVars == <<watchers, pumps, result, taken, watchCalls, lastMsg, sessState,
              endedBy, terminal, emitsStop>>

\* The variables of the middleware chain, of the Cache middleware, of the
\* ContentTypeWriter and of the route variables.
chainVars == <<chain, idx, rtn, cpc, todo, stack, executionOrder>>
cacheVars == <<path, suffixes, cacheControl, handlerCalls, kpc>>
ctVars == <<ctHeader, body, writes, presetCT>>
routeVars == <<heap, reqCtx, passedIn, got>>
httpVars == <<chainVars, cacheVars, ctVars, routeVars>>

\* The variables only the queued variant writes, and the variant itself.
queueVars == <<variant, dbcQueueCh, queueClosed>>

\* History variables only the environment's steps write.
envHist == <<rcvdAtCancel, rcvdAtExpire, closedAfterExpire>>

SendPcs == {"sendErr", "sendFirst", "sendTimer"}

\* Everything the producer has written so far.
Sent == received \o inCh

Last(s) == s[Len(s)]

\* newDebouncer followed by the entry of Run (state := FirstNotification).
\* The context handed to Run may already be cancelled; the input channel is
\* the caller's, of any capacity.
InitDebouncer ==
    /\ state = FirstNotification
    /\ latestRV = EmptyRV
    /\ timer = "stopped"
    /\ inCh = <<>>
    /\ inCap \in 0..MaxInCap
    /\ inClosed = FALSE
    /\ outVal = Notification(EmptyRV)
    /\ outClosed = FALSE
    /\ pc = "select"
    /\ ctxDone \in BOOLEAN
    /\ ctxAtRun = ctxDone
    /\ reading = TRUE
    /\ received = <<>>
    /\ emittedAtRecv = <<>>
    /\ emitted = <<>>
    /\ armed = 0
    /\ rcvdAtCancel = 0
    /\ rcvdAtExpire = 0
    /\ closedAfterExpire = FALSE
    /\ now = 0
    /\ deadline = 0
    /\ emitAt = <<>>
    /\ dbcQueueCh = <<>>
    /\ queueClosed = FALSE

\* The schemas of Test_stream: "watchable-resource" has a store,
\* "listonly-resource" has none, "notaresource" is not registered.
ResourceTypes == {"watchable-resource", "listonly-resource", "notaresource"}
Schemas == {"watchable-resource", "listonly-resource"}
Watchable == {"watchable-resource"}

\* Two of the scopes of Test_stream: all, and by namespace.
Scopes ==
    { [ID |-> "", Namespace |-> "", Selector |-> ""],
      [ID |-> "", Namespace |-> "test-ns", Selector |-> ""] }

SubscriptionModeDefault == ""

\* Subscribe: the start requests of Test_stream (all resources, by
\* namespace, not a resource, list-only resource, notification mode) ...
Subscribe(t, sc, m, stop) ==
    [ResourceType |-> t, ID |-> sc.ID, Namespace |-> sc.Namespace,
     Selector |-> sc.Selector, Mode |-> m, Stop |-> stop]

ScopeAll == [ID |-> "", Namespace |-> "", Selector |-> ""]

StartRequests ==
    { Subscribe("watchable-resource", sc, SubscriptionModeDefault, FALSE) : sc \in Scopes }
    \cup { Subscribe(t, ScopeAll, SubscriptionModeDefault, FALSE) : t \in ResourceTypes }
    \cup { Subscribe("watchable-resource", ScopeAll, SubscriptionModeNotification, FALSE) }

\* ... and the stop requests for the same watches.
StopRequests ==
    { [sub EXCEPT !.Mode = SubscriptionModeDefault, !.Stop = TRUE] : sub \in StartRequests }

\* The watch key of a request: the resource type and the scope fields.
WatchKey(sub) == <<sub.ResourceType, sub.ID, sub.Namespace, sub.Selector>>

\* The watch keys of the requests a client can send.
Keys == {WatchKey(sub) : sub \in StartRequests}

\* The session of one connection: no watch, nothing sent.
InitSession ==
    /\ watchers = {}
    /\ pumps = [k \in Keys |-> <<>>]
    /\ result = [k \in Keys |-> <<>>]
    /\ taken = 0
    /\ watchCalls = 0
    /\ lastMsg = "none"
    /\ sessState = "open"
    /\ endedBy = "none"
    /\ terminal = <<>>
    /\ emitsStop \in BOOLEAN

\* No middleware chain is being built or served.
ChainIdle ==
    /\ chain = <<>>
    /\ idx = 0
    /\ rtn = <<>>
    /\ cpc = "idle"
    /\ todo = <<>>
    /\ stack = <<>>
    /\ executionOrder = <<>>

\* No request is passing through the Cache middleware.
CacheIdle ==
    /\ path = <<>>
    /\ suffixes = <<>>
    /\ cacheControl = ""
    /\ handlerCalls = 0
    /\ kpc = "idle"

\* No handler is writing through a ContentTypeWriter.
WriterIdle ==
    /\ ctHeader = ""
    /\ body = <<>>
    /\ writes = <<>>
    /\ presetCT = "idle"

\* No request carries route variables.
RouteIdle ==
    /\ heap = <<>>
    /\ reqCtx = 0
    /\ passedIn = <<>>
    /\ got = 0

\* The last-write-wins debouncer.
Init ==
    /\ variant = LastWriteWins
    /\ InitDebouncer
    /\ InitSession
    /\ ~emitsStop
    /\ ChainIdle /\ CacheIdle /\ WriterIdle /\ RouteIdle

\* The queued debouncer.
QInit ==
    /\ variant = Queued
    /\ InitDebouncer
    /\ InitSession
    /\ ~emitsStop
    /\ ChainIdle /\ CacheIdle /\ WriterIdle /\ RouteIdle

\* Either debouncer.
AnyInit ==
    /\ variant \in {LastWriteWins, Queued}
    /\ InitDebouncer
    /\ InitSession
    /\ ~emitsStop
    /\ ChainIdle /\ CacheIdle /\ WriterIdle /\ RouteIdle

\* ---- environment ------------------------------------------------------

\* The producer writes ev into a buffered input channel with free space.
ProducerSend(ev) ==
    /\ ~inClosed
    /\ Len(Sent) < MaxEvents
    /\ Len(inCh) < inCap
    /\ inCh' = Append(inCh, ev)
    /\ UNCHANGED <<state, latestRV, timer, inCap, inClosed, outVal, outClosed, pc,
                   ctxDone, ctxAtRun, reading, received, emittedAtRecv, emitted, armed, envHist, now, deadline, emitAt, queueVars, sessVars, httpVars>>

\* The producer closes the input channel.
ProducerClose ==
    /\ ~inClosed
    /\ inClosed' = TRUE
    /\ closedAfterExpire' = (rcvdAtExpire > 0)
    /\ UNCHANGED <<state, latestRV, timer, inCh, inCap, outVal, outClosed, pc,
                   ctxDone, ctxAtRun, reading, received, emittedAtRecv, emitted, armed, rcvdAtCancel, rcvdAtExpire, now, deadline, emitAt, queueVars, sessVars, httpVars>>

\* The context is cancelled.
Cancel ==
    /\ ~ctxDone
    /\ ctxDone' = TRUE
    /\ rcvdAtCancel' = Len(received)
    /\ UNCHANGED <<state, latestRV, timer, inCh, inCap, inClosed, outVal, outClosed, pc,
                   ctxAtRun, reading, received, emittedAtRecv, emitted, armed, rcvdAtExpire, closedAfterExpire, now, deadline, emitAt, queueVars, sessVars, httpVars>>

\* The debounce interval elapses: the runtime puts a value in timer.C.
TimerExpire ==
    /\ timer = "running"
    /\ timer' = "fired"
    /\ rcvdAtExpire' = IF rcvdAtExpire = 0 THEN Len(received) ELSE rcvdAtExpire
    /\ UNCHANGED <<state, latestRV, inCh, inCap, inClosed, outVal, outClosed, pc,
                   ctxDone, ctxAtRun, reading, received, emittedAtRecv, emitted, armed, rcvdAtCancel, closedAfterExpire, now, deadline, emitAt, queueVars, sessVars, httpVars>>

\* The consumer stops receiving from the output channel.
ConsumerStop ==
    /\ reading
    /\ reading' = FALSE
    /\ UNCHANGED <<state, latestRV, timer, inCh, inCap, inClosed, outVal, outClosed, pc,
                   ctxDone, ctxAtRun, received, emittedAtRecv, emitted, armed, envHist, now, deadline, emitAt, queueVars, sessVars, httpVars>>

\* The debounce interval has elapsed on the clock and the timer expires.
TimerElapse ==
    /\ now >= deadline
    /\ TimerExpire

\* Time passes.
Tick ==
    /\ now < MaxTime
    /\ now' = now + 1
    /\ UNCHANGED <<state, latestRV, timer, inCh, inCap, inClosed, outVal, outClosed, pc,
                   ctxDone, ctxAtRun, reading, received, emittedAtRecv, emitted, armed, envHist,
                   deadline, emitAt, queueVars, sessVars, httpVars>>

\* ---- debouncer.Run ----------------------------------------------------

\* break loop; close(d.outCh); return
BreakLoop ==
    /\ outClosed' = TRUE
    /\ pc' = "done"

\* Mutant of CtxDone: Run returns without closing the output.
CtxDoneReturns ==
    /\ variant = LastWriteWins
    /\ pc = "select"
    /\ ctxDone
    /\ pc' = "done"
    /\ UNCHANGED <<state, latestRV, timer, inCh, inCap, inClosed, outVal, outClosed,
                   ctxDone, ctxAtRun, reading, received, emittedAtRecv, emitted, armed, envHist, now, deadline, emitAt, queueVars, sessVars, httpVars>>

\* case <-ctx.Done(): break loop
CtxDone ==
    /\ variant = LastWriteWins
    /\ pc = "select"
    /\ ctxDone
    /\ BreakLoop
    /\ UNCHANGED <<state, latestRV, timer, inCh, inCap, inClosed, outVal,
                   ctxDone, ctxAtRun, reading, received, emittedAtRecv, emitted, armed, envHist, now, deadline, emitAt, queueVars, sessVars, httpVars>>

\* The event the select's receive case can take now, and the channel after
\* it: the head of the buffer, or, on an unbuffered channel, an event the
\* producer is writing at this moment.
CanRecv(ev) ==
    IF inCh # <<>>
    THEN ev = Head(inCh)
    ELSE inCap = 0 /\ ~inClosed /\ Len(Sent) < MaxEvents

AfterRecv(ev) ==
    /\ inCh' = IF inCh # <<>> THEN Tail(inCh) ELSE inCh
    /\ received' = Append(received, ev)
    /\ emittedAtRecv' = Append(emittedAtRecv, Len(emitted))

\* Mutant of RecvError: the error event is turned into a plain notification.
RecvErrorLosesError(ev) ==
    /\ pc = "select"
    /\ CanRecv(ev)
    /\ ev.Error # NoError
    /\ AfterRecv(ev)
    /\ outVal' = Notification(ev.Revision)
    /\ pc' = "sendErr"
    /\ UNCHANGED <<state, latestRV, timer, inCap, inClosed, outClosed,
                   ctxDone, ctxAtRun, reading, emitted, armed, envHist, now, deadline, emitAt, queueVars, sessVars, httpVars>>

\* case ev, ok := <-d.inCh: if ev.Error != nil { ev.Name = ...; d.outCh <- ev
\* (the send blocks until the consumer receives)
RecvError(ev) ==
    /\ pc = "select"
    /\ CanRecv(ev)
    /\ ev.Error # NoError
    /\ AfterRecv(ev)
    /\ outVal' = [ev EXCEPT !.Name = SubscriptionModeNotification]
    /\ pc' = "sendErr"
    /\ UNCHANGED <<state, latestRV, timer, inCap, inClosed, outClosed,
                   ctxDone, ctxAtRun, reading, emitted, armed, envHist, now, deadline, emitAt, queueVars, sessVars, httpVars>>

\* ... d.outCh <- ev completes; break loop
SendErrDone ==
    /\ variant = LastWriteWins
    /\ pc = "sendErr"
    /\ reading
    /\ emitted' = Append(emitted, outVal)
    /\ emitAt' = Append(emitAt, now)
    /\ BreakLoop
    /\ UNCHANGED <<state, latestRV, timer, inCh, inCap, inClosed, outVal,
                   ctxDone, ctxAtRun, reading, received, emittedAtRecv, armed, envHist, now, deadline, queueVars, sessVars, httpVars>>

\* Mutant of RecvClosed: the closed input is not noticed and the loop goes on.
RecvClosedNoBreak ==
    /\ variant = LastWriteWins
    /\ pc = "select"
    /\ inClosed
    /\ inCh = <<>>
    /\ latestRV' = EmptyRV
    /\ UNCHANGED <<state, timer, inCh, inCap, inClosed, outVal, outClosed, pc,
                   ctxDone, ctxAtRun, reading, received, emittedAtRecv, emitted, armed, envHist, now, deadline, emitAt, queueVars, sessVars, httpVars>>

\* case ev, ok := <-d.inCh: if !ok { break loop }
RecvClosed ==
    /\ variant = LastWriteWins
    /\ pc = "select"
    /\ inClosed
    /\ inCh = <<>>
    /\ BreakLoop
    /\ UNCHANGED <<state, latestRV, timer, inCh, inCap, inClosed, outVal,
                   ctxDone, ctxAtRun, reading, received, emittedAtRecv, emitted, armed, envHist, now, deadline, emitAt, queueVars, sessVars, httpVars>>

\* Mutant of RecvFirst: the first event opens a window like any later one.
RecvFirstArmsTimer(ev) ==
    /\ variant = LastWriteWins
    /\ pc = "select"
    /\ CanRecv(ev)
    /\ ev.Error = NoError
    /\ state = FirstNotification
    /\ AfterRecv(ev)
    /\ latestRV' = ev.Revision
    /\ state' = TimerStarted
    /\ timer' = "running"
    /\ deadline' = now + DebounceRate
    /\ armed' = armed + 1
    /\ UNCHANGED <<inCap, inClosed, outVal, outClosed, pc,
                   ctxDone, ctxAtRun, reading, emitted, envHist, now, emitAt, queueVars, sessVars, httpVars>>

\* Mutant of RecvFirst: the first event is passed on as it came.
RecvFirstForwardsEvent(ev) ==
    /\ variant = LastWriteWins
    /\ pc = "select"
    /\ CanRecv(ev)
    /\ ev.Error = NoError
    /\ state = FirstNotification
    /\ AfterRecv(ev)
    /\ latestRV' = ev.Revision
    /\ outVal' = ev
    /\ pc' = "sendFirst"
    /\ UNCHANGED <<state, timer, inCap, inClosed, outClosed,
                   ctxDone, ctxAtRun, reading, emitted, armed, envHist, now, deadline, emitAt, queueVars, sessVars, httpVars>>

\* d.latestRV = ev.Revision; case FirstNotification: d.outCh <- {Revision: ev.Revision}
RecvFirst(ev) ==
    /\ variant = LastWriteWins
    /\ pc = "select"
    /\ CanRecv(ev)
    /\ ev.Error = NoError
    /\ state = FirstNotification
    /\ AfterRecv(ev)
    /\ latestRV' = ev.Revision
    /\ outVal' = Notification(ev.Revision)
    /\ pc' = "sendFirst"
    /\ UNCHANGED <<state, timer, inCap, inClosed, outClosed,
                   ctxDone, ctxAtRun, reading, emitted, armed, envHist, now, deadline, emitAt, queueVars, sessVars, httpVars>>

\* ... the send completes; state = TimerStopped
SendFirstDone ==
    /\ pc = "sendFirst"
    /\ reading
    /\ emitted' = Append(emitted, outVal)
    /\ emitAt' = Append(emitAt, now)
    /\ state' = TimerStopped
    /\ pc' = "select"
    /\ UNCHANGED <<latestRV, timer, inCh, inCap, inClosed, outVal, outClosed,
                   ctxDone, ctxAtRun, reading, received, emittedAtRecv, armed, envHist, now, deadline, queueVars, sessVars, httpVars>>

\* Mutant of RecvStopped: the state changes but the timer is not armed.
RecvStoppedNoTimer(ev) ==
    /\ variant = LastWriteWins
    /\ pc = "select"
    /\ CanRecv(ev)
    /\ ev.Error = NoError
    /\ state = TimerStopped
    /\ AfterRecv(ev)
    /\ latestRV' = ev.Revision
    /\ state' = TimerStarted
    /\ UNCHANGED <<timer, inCap, inClosed, outVal, outClosed, pc,
                   ctxDone, ctxAtRun, reading, emitted, armed, envHist, now, deadline, emitAt, queueVars, sessVars, httpVars>>

\* Mutant of RecvStopped: an event received while idle is sent at once, like
\* the first one.
RecvStoppedSendsAtOnce(ev) ==
    /\ variant = LastWriteWins
    /\ pc = "select"
    /\ CanRecv(ev)
    /\ ev.Error = NoError
    /\ state = TimerStopped
    /\ AfterRecv(ev)
    /\ latestRV' = ev.Revision
    /\ outVal' = Notification(ev.Revision)
    /\ pc' = "sendFirst"
    /\ UNCHANGED <<state, timer, inCap, inClosed, outClosed,
                   ctxDone, ctxAtRun, reading, emitted, armed, envHist, now, deadline, emitAt, queueVars, sessVars, httpVars>>

\* Mutant of RecvStopped: the event that opens the window does not set the
\* pending revision.
RecvStoppedKeepsRV(ev) ==
    /\ variant = LastWriteWins
    /\ pc = "select"
    /\ CanRecv(ev)
    /\ ev.Error = NoError
    /\ state = TimerStopped
    /\ AfterRecv(ev)
    /\ state' = TimerStarted
    /\ timer' = "running"
    /\ deadline' = now + DebounceRate
    /\ armed' = armed + 1
    /\ UNCHANGED <<latestRV, inCap, inClosed, outVal, outClosed, pc,
                   ctxDone, ctxAtRun, reading, emitted, envHist, now, emitAt, queueVars, sessVars, httpVars>>

\* Mutant of RecvStopped: the timer is armed with no delay.
RecvStoppedNoDelay(ev) ==
    /\ variant = LastWriteWins
    /\ pc = "select"
    /\ CanRecv(ev)
    /\ ev.Error = NoError
    /\ state = TimerStopped
    /\ AfterRecv(ev)
    /\ latestRV' = ev.Revision
    /\ state' = TimerStarted
    /\ timer' = "running"
    /\ deadline' = now
    /\ armed' = armed + 1
    /\ UNCHANGED <<inCap, inClosed, outVal, outClosed, pc,
                   ctxDone, ctxAtRun, reading, emitted, envHist, now, emitAt, queueVars, sessVars, httpVars>>

\* d.latestRV = ev.Revision; case TimerStopped: state = TimerStarted; d.timer.Reset(d.debounceRate)
RecvStopped(ev) ==
    /\ variant = LastWriteWins
    /\ pc = "select"
    /\ CanRecv(ev)
    /\ ev.Error = NoError
    /\ state = TimerStopped
    /\ AfterRecv(ev)
    /\ latestRV' = ev.Revision
    /\ state' = TimerStarted
    /\ timer' = "running"
    /\ deadline' = now + DebounceRate
    /\ armed' = armed + 1
    /\ UNCHANGED <<inCap, inClosed, outVal, outClosed, pc,
                   ctxDone, ctxAtRun, reading, emitted, envHist, now, emitAt, queueVars, sessVars, httpVars>>

\* Mutant of RecvStarted: every event restarts the debounce interval.
RecvStartedRearms(ev) ==
    /\ variant = LastWriteWins
    /\ pc = "select"
    /\ CanRecv(ev)
    /\ ev.Error = NoError
    /\ state = TimerStarted
    /\ AfterRecv(ev)
    /\ latestRV' = ev.Revision
    /\ timer' = "running"
    /\ deadline' = now + DebounceRate
    /\ armed' = armed + 1
    /\ UNCHANGED <<state, inCap, inClosed, outVal, outClosed, pc,
                   ctxDone, ctxAtRun, reading, emitted, envHist, now, emitAt, queueVars, sessVars, httpVars>>

\* Mutant of RecvStarted: the pending revision is not replaced.
RecvStartedKeepsRV(ev) ==
    /\ variant = LastWriteWins
    /\ pc = "select"
    /\ CanRecv(ev)
    /\ ev.Error = NoError
    /\ state = TimerStarted
    /\ AfterRecv(ev)
    /\ UNCHANGED <<state, latestRV, timer, inCap, inClosed, outVal, outClosed, pc,
                   ctxDone, ctxAtRun, reading, emitted, armed, envHist, now, deadline, emitAt, queueVars, sessVars, httpVars>>

\* d.latestRV = ev.Revision; the switch has no case for TimerStarted
RecvStarted(ev) ==
    /\ variant = LastWriteWins
    /\ pc = "select"
    /\ CanRecv(ev)
    /\ ev.Error = NoError
    /\ state = TimerStarted
    /\ AfterRecv(ev)
    /\ latestRV' = ev.Revision
    /\ UNCHANGED <<state, timer, inCap, inClosed, outVal, outClosed, pc,
                   ctxDone, ctxAtRun, reading, emitted, armed, envHist, now, deadline, emitAt, queueVars, sessVars, httpVars>>

\* case <-d.timer.C: d.outCh <- {Revision: d.latestRV}
TimerCase ==
    /\ variant = LastWriteWins
    /\ pc = "select"
    /\ timer = "fired"
    /\ timer' = "stopped"
    /\ outVal' = Notification(latestRV)
    /\ pc' = "sendTimer"
    /\ UNCHANGED <<state, latestRV, inCh, inCap, inClosed, outClosed,
                   ctxDone, ctxAtRun, reading, received, emittedAtRecv, emitted, armed, envHist, now, deadline, emitAt, queueVars, sessVars, httpVars>>

\* Mutant of SendTimerDone: the timer is armed again after the send.
SendTimerDoneRearms ==
    /\ variant = LastWriteWins
    /\ pc = "sendTimer"
    /\ reading
    /\ emitted' = Append(emitted, outVal)
    /\ emitAt' = Append(emitAt, now)
    /\ state' = TimerStarted
    /\ timer' = "running"
    /\ deadline' = now + DebounceRate
    /\ pc' = "select"
    /\ UNCHANGED <<latestRV, inCh, inCap, inClosed, outVal, outClosed,
                   ctxDone, ctxAtRun, reading, received, emittedAtRecv, armed, envHist, now, queueVars, sessVars, httpVars>>

\* Mutant of SendTimerDone: the state is not set back to TimerStopped.
SendTimerDoneKeepsState ==
    /\ variant = LastWriteWins
    /\ pc = "sendTimer"
    /\ reading
    /\ emitted' = Append(emitted, outVal)
    /\ emitAt' = Append(emitAt, now)
    /\ timer' = "stopped"
    /\ pc' = "select"
    /\ UNCHANGED <<state, latestRV, inCh, inCap, inClosed, outVal, outClosed,
                   ctxDone, ctxAtRun, reading, received, emittedAtRecv, armed, envHist, now, deadline, queueVars, sessVars, httpVars>>

\* ... the send completes; state = TimerStopped; d.timer.Stop()
SendTimerDone ==
    /\ variant = LastWriteWins
    /\ pc = "sendTimer"
    /\ reading
    /\ emitted' = Append(emitted, outVal)
    /\ emitAt' = Append(emitAt, now)
    /\ state' = TimerStopped
    /\ timer' = "stopped"
    /\ pc' = "select"
    /\ UNCHANGED <<latestRV, inCh, inCap, inClosed, outVal, outClosed,
                   ctxDone, ctxAtRun, reading, received, emittedAtRecv, armed, envHist, now, deadline, queueVars, sessVars, httpVars>>

\* ---- debouncer.Run, queued variant --------------------------------------

\* break loop; close(d.outCh); close(d.dbcQueueCh); return
QBreakLoop ==
    /\ outClosed' = TRUE
    /\ queueClosed' = TRUE
    /\ pc' = "done"

\* case <-ctx.Done(): break loop
QCtxDone ==
    /\ variant = Queued
    /\ pc = "select"
    /\ ctxDone
    /\ QBreakLoop
    /\ UNCHANGED <<state, latestRV, timer, inCh, inCap, inClosed, outVal,
                   ctxDone, ctxAtRun, reading, received, emittedAtRecv, emitted, armed, envHist,
                   now, deadline, emitAt, variant, dbcQueueCh, sessVars, httpVars>>

\* ... d.outCh <- ev completes; break loop
QSendErrDone ==
    /\ variant = Queued
    /\ pc = "sendErr"
    /\ reading
    /\ emitted' = Append(emitted, outVal)
    /\ emitAt' = Append(emitAt, now)
    /\ QBreakLoop
    /\ UNCHANGED <<state, latestRV, timer, inCh, inCap, inClosed, outVal,
                   ctxDone, ctxAtRun, reading, received, emittedAtRecv, armed, envHist,
                   now, deadline, variant, dbcQueueCh, sessVars, httpVars>>

\* case ev, ok := <-d.inCh: if !ok { break loop }
QRecvClosed ==
    /\ variant = Queued
    /\ pc = "select"
    /\ inClosed
    /\ inCh = <<>>
    /\ QBreakLoop
    /\ UNCHANGED <<state, latestRV, timer, inCh, inCap, inClosed, outVal,
                   ctxDone, ctxAtRun, reading, received, emittedAtRecv, emitted, armed, envHist,
                   now, deadline, emitAt, variant, dbcQueueCh, sessVars, httpVars>>

\* case FirstNotification: d.outCh <- {Revision: ev.Revision}
QRecvFirst(ev) ==
    /\ variant = Queued
    /\ pc = "select"
    /\ CanRecv(ev)
    /\ ev.Error = NoError
    /\ state = FirstNotification
    /\ AfterRecv(ev)
    /\ outVal' = Notification(ev.Revision)
    /\ pc' = "sendFirst"
    /\ UNCHANGED <<state, latestRV, timer, inCap, inClosed, outClosed,
                   ctxDone, ctxAtRun, reading, emitted, armed, envHist,
                   now, deadline, emitAt, queueVars, sessVars, httpVars>>

\* d.dbcQueueCh <- {Revision: rv}: the send on the buffered queue blocks
\* when the queue is full, and Run is the queue's only receiver.
Enqueue(rv) ==
    IF Len(dbcQueueCh) < QueueCap
    THEN /\ dbcQueueCh' = Append(dbcQueueCh, Notification(rv))
         /\ pc' = "select"
    ELSE /\ dbcQueueCh' = dbcQueueCh
         /\ pc' = "sendQueue"

\* Mutant of QRecvStopped: the event that opens the window is not queued.
QRecvStoppedNotQueued(ev) ==
    /\ variant = Queued
    /\ pc = "select"
    /\ CanRecv(ev)
    /\ ev.Error = NoError
    /\ state = TimerStopped
    /\ AfterRecv(ev)
    /\ state' = TimerStarted
    /\ timer' = "running"
    /\ deadline' = now + DebounceRate
    /\ armed' = armed + 1
    /\ UNCHANGED <<latestRV, inCap, inClosed, outVal, outClosed, pc,
                   ctxDone, ctxAtRun, reading, emitted, envHist, now, emitAt,
                   queueVars, sessVars, httpVars>>

\* case TimerStopped: state = TimerStarted; d.timer.Reset(d.debounceRate);
\* fallthrough; default: d.dbcQueueCh <- {Revision: ev.Revision}
QRecvStopped(ev) ==
    /\ variant = Queued
    /\ pc = "select"
    /\ CanRecv(ev)
    /\ ev.Error = NoError
    /\ state = TimerStopped
    /\ AfterRecv(ev)
    /\ state' = TimerStarted
    /\ timer' = "running"
    /\ deadline' = now + DebounceRate
    /\ armed' = armed + 1
    /\ Enqueue(ev.Revision)
    /\ UNCHANGED <<latestRV, inCap, inClosed, outVal, outClosed,
                   ctxDone, ctxAtRun, reading, emitted, envHist, now, emitAt,
                   variant, queueClosed, sessVars, httpVars>>

\* default: d.dbcQueueCh <- {Revision: ev.Revision}
QRecvStarted(ev) ==
    /\ variant = Queued
    /\ pc = "select"
    /\ CanRecv(ev)
    /\ ev.Error = NoError
    /\ state = TimerStarted
    /\ AfterRecv(ev)
    /\ Enqueue(ev.Revision)
    /\ UNCHANGED <<state, latestRV, timer, inCap, inClosed, outVal, outClosed,
                   ctxDone, ctxAtRun, reading, emitted, armed, envHist,
                   now, deadline, emitAt, variant, queueClosed, sessVars, httpVars>>

\* case <-d.timer.C: d.outCh <- <-d.dbcQueueCh (the receive from an empty
\* queue blocks: Run is the queue's only sender)
QTimerCase ==
    /\ variant = Queued
    /\ pc = "select"
    /\ timer = "fired"
    /\ timer' = "stopped"
    /\ IF dbcQueueCh # <<>>
       THEN /\ outVal' = Head(dbcQueueCh)
            /\ dbcQueueCh' = Tail(dbcQueueCh)
            /\ pc' = "sendTimer"
       ELSE /\ UNCHANGED <<outVal, dbcQueueCh>>
            /\ pc' = "recvQueue"
    /\ UNCHANGED <<state, latestRV, inCh, inCap, inClosed, outClosed,
                   ctxDone, ctxAtRun, reading, received, emittedAtRecv, emitted, armed, envHist,
                   now, deadline, emitAt, variant, queueClosed, sessVars, httpVars>>

\* ... the send completes; if len(d.dbcQueueCh) > 0 { state = TimerStarted;
\* d.timer.Reset(d.debounceRate) } else { state = TimerStopped; d.timer.Stop() }
QSendTimerDone ==
    /\ variant = Queued
    /\ pc = "sendTimer"
    /\ reading
    /\ emitted' = Append(emitted, outVal)
    /\ emitAt' = Append(emitAt, now)
    /\ IF Len(dbcQueueCh) > 0
       THEN /\ state' = TimerStarted
            /\ timer' = "running"
            /\ deadline' = now + DebounceRate
            /\ armed' = armed + 1
       ELSE /\ state' = TimerStopped
            /\ timer' = "stopped"
            /\ UNCHANGED <<deadline, armed>>
    /\ pc' = "select"
    /\ UNCHANGED <<latestRV, inCh, inCap, inClosed, outVal, outClosed,
                   ctxDone, ctxAtRun, reading, received, emittedAtRecv, envHist, now, queueVars, sessVars, httpVars>>

\* One step of the goroutine executing Run.
Run ==
    \/ CtxDone
    \/ RecvClosed
    \/ TimerCase
    \/ SendErrDone
    \/ SendFirstDone
    \/ SendTimerDone
    \/ \E ev \in InEvents : RecvError(ev)
    \/ \E ev \in InEvents : RecvFirst(ev)
    \/ \E ev \in InEvents : RecvStopped(ev)
    \/ \E ev \in InEvents : RecvStarted(ev)

\* One step of the goroutine executing Run, queued variant.
QRun ==
    \/ QCtxDone
    \/ QRecvClosed
    \/ QTimerCase
    \/ QSendErrDone
    \/ SendFirstDone
    \/ QSendTimerDone
    \/ \E ev \in InEvents : RecvError(ev)
    \/ \E ev \in InEvents : QRecvFirst(ev)
    \/ \E ev \in InEvents : QRecvStopped(ev)
    \/ \E ev \in InEvents : QRecvStarted(ev)

Next ==
    \/ \E ev \in InEvents : ProducerSend(ev)
    \/ ProducerClose
    \/ Cancel
    \/ TimerExpire
    \/ ConsumerStop
    \/ CtxDone
    \/ RecvClosed
    \/ TimerCase
    \/ SendErrDone
    \/ SendFirstDone
    \/ SendTimerDone
    \/ \E ev \in InEvents : RecvError(ev)
    \/ \E ev \in InEvents : RecvFirst(ev)
    \/ \E ev \in InEvents : RecvStopped(ev)
    \/ \E ev \in InEvents : RecvStarted(ev)

Spec == Init /\ [][Next]_vars

\* The queued debouncer and its environment.
QNext ==
    \/ \E ev \in InEvents : ProducerSend(ev)
    \/ ProducerClose
    \/ Cancel
    \/ TimerExpire
    \/ ConsumerStop
    \/ QCtxDone
    \/ QRecvClosed
    \/ QTimerCase
    \/ QSendErrDone
    \/ SendFirstDone
    \/ QSendTimerDone
    \/ \E ev \in InEvents : RecvError(ev)
    \/ \E ev \in InEvents : QRecvFirst(ev)
    \/ \E ev \in InEvents : QRecvStopped(ev)
    \/ \E ev \in InEvents : QRecvStarted(ev)

QSpec == QInit /\ [][QNext]_vars

\* The queued debouncer in the middle of a burst: since the timer was armed
\* the producer has been faster than the timer, and the queue holds all but
\* one of the events it has room for.  The histories start here.
QBurstInit ==
    /\ variant = Queued
    /\ state = TimerStarted
    /\ latestRV = EmptyRV
    /\ timer = "running"
    /\ inCh = <<>>
    /\ inCap \in 0..MaxInCap
    /\ inClosed = FALSE
    /\ outVal = Notification(EmptyRV)
    /\ outClosed = FALSE
    /\ pc = "select"
    /\ ctxDone = FALSE
    /\ ctxAtRun = FALSE
    /\ reading = TRUE
    /\ received = <<>>
    /\ emittedAtRecv = <<>>
    /\ emitted = <<>>
    /\ armed = 0
    /\ rcvdAtCancel = 0
    /\ rcvdAtExpire = 0
    /\ closedAfterExpire = FALSE
    /\ now = 0
    /\ deadline = DebounceRate
    /\ emitAt = <<>>
    /\ dbcQueueCh = [i \in 1..(QueueCap - 1) |-> Notification(EmptyRV)]
    /\ queueClosed = FALSE
    /\ InitSession
    /\ ~emitsStop
    /\ ChainIdle /\ CacheIdle /\ WriterIdle /\ RouteIdle

\* The timer expires, at most MaxBurstExpiries times from the start of the
\* observation.
BurstTimerExpire ==
    /\ armed < MaxBurstExpiries
    /\ TimerExpire

\* The queued debouncer and its environment in the middle of a burst: the
\* queue is never empty, so that the state stays TimerStarted.
QBurstNext ==
    \/ \E ev \in InEvents : ProducerSend(ev)
    \/ ProducerClose
    \/ Cancel
    \/ BurstTimerExpire
    \/ ConsumerStop
    \/ QCtxDone
    \/ QRecvClosed
    \/ QTimerCase
    \/ QSendErrDone
    \/ QSendTimerDone
    \/ \E ev \in InEvents : RecvError(ev)
    \/ \E ev \in InEvents : QRecvStarted(ev)

QBurstSpec == QBurstInit /\ [][QBurstNext]_vars

\* Either debouncer and its environment.
AnyNext ==
    \/ \E ev \in InEvents : ProducerSend(ev)
    \/ ProducerClose
    \/ Cancel
    \/ TimerExpire
    \/ ConsumerStop
    \/ CtxDone
    \/ RecvClosed
    \/ TimerCase
    \/ SendErrDone
    \/ SendFirstDone
    \/ SendTimerDone
    \/ \E ev \in InEvents : RecvError(ev)
    \/ \E ev \in InEvents : RecvFirst(ev)
    \/ \E ev \in InEvents : RecvStopped(ev)
    \/ \E ev \in InEvents : RecvStarted(ev)
    \/ QCtxDone
    \/ QRecvClosed
    \/ QTimerCase
    \/ QSendErrDone
    \/ QSendTimerDone
    \/ \E ev \in InEvents : QRecvFirst(ev)
    \/ \E ev \in InEvents : QRecvStopped(ev)
    \/ \E ev \in InEvents : QRecvStarted(ev)

AnySpec == AnyInit /\ [][AnyNext]_vars

\* The same debouncer against a clock: the timer expires no earlier than one
\* debounce interval after it was armed.
TimedNext ==
    \/ \E ev \in InEvents : ProducerSend(ev)
    \/ ProducerClose
    \/ Cancel
    \/ Tick
    \/ TimerElapse
    \/ ConsumerStop
    \/ CtxDone
    \/ RecvClosed
    \/ TimerCase
    \/ SendErrDone
    \/ SendFirstDone
    \/ SendTimerDone
    \/ \E ev \in InEvents : RecvError(ev)
    \/ \E ev \in InEvents : RecvFirst(ev)
    \/ \E ev \in InEvents : RecvStopped(ev)
    \/ \E ev \in InEvents : RecvStarted(ev)

TimedSpec == Init /\ [][TimedNext]_vars

\* The scheduler runs a runnable goroutine: Run is not starved while it has
\* a step to take.  Nothing obliges the environment to act.
FairSpec == Spec /\ WF_vars(Run)

\* The same, and a running timer eventually expires.
LiveSpec == Spec /\ WF_vars(Run) /\ WF_vars(TimerExpire)

TypeOK ==
    /\ state \in DebouncerState
    /\ latestRV \in Revs
    /\ timer \in {"stopped", "running", "fired"}
    /\ inCh \in Seq(InEvents) /\ Len(inCh) <= inCap
    /\ inCap \in 0..MaxInCap
    /\ inClosed \in BOOLEAN
    /\ outClosed \in BOOLEAN
    /\ pc \in SendPcs \cup {"select", "done"}
    /\ ctxDone \in BOOLEAN
    /\ ctxAtRun \in BOOLEAN
    /\ reading \in BOOLEAN
    /\ received \in Seq(InEvents)
    /\ Len(emitted) <= Len(received)


\* ---- watch session -------------------------------------------------------
\* WatchSession (start, stop, close) and its pumps (stream).  Their code is
\* not among the sources: the definitions below follow the specification
\* (4.2, 4.3, 5, 7) and the fixture of Test_stream.

\* The events an upstream watch produces.
CreateEvent == [Name |-> "resource.create", Revision |-> 1, Data |-> "data", Error |-> NoError]
UpEvents ==
    { CreateEvent,
      [Name |-> "resource.error", Revision |-> EmptyRV, Data |-> "", Error |-> WatchError] }

\* Mutant of StartEvent: resource.start names the resource type only.
StartEventWithoutScope(sub) ==
    [Name |-> "resource.start", ResourceType |-> sub.ResourceType,
     Namespace |-> "", Selector |-> "", ID |-> "",
     Mode |-> SubscriptionModeDefault, Data |-> "", Revision |-> EmptyRV, Error |-> NoError]

\* resource.start, carrying the scope fields and the mode of the request.
StartEvent(sub) ==
    [Name |-> "resource.start", ResourceType |-> sub.ResourceType,
     Namespace |-> sub.Namespace, Selector |-> sub.Selector, ID |-> sub.ID,
     Mode |-> sub.Mode, Data |-> "", Revision |-> EmptyRV, Error |-> NoError]

\* resource.stop for a stopped watch.
StopEvent(sub) ==
    [Name |-> "resource.stop", ResourceType |-> sub.ResourceType,
     Namespace |-> sub.Namespace, Selector |-> sub.Selector, ID |-> sub.ID,
     Mode |-> SubscriptionModeDefault, Data |-> "", Revision |-> EmptyRV, Error |-> NoError]

\* resource.error, carrying the error and its detail as data.
ErrorEvent(ev) ==
    [Name |-> "resource.error", ResourceType |-> "",
     Namespace |-> "", Selector |-> "", ID |-> "",
     Mode |-> SubscriptionModeDefault, Data |-> ev.Error, Revision |-> EmptyRV,
     Error |-> ev.Error]

\* Mutant of Stamp: the event is forwarded without its payload.
StampDropsData(sub, ev) ==
    [Name |-> ev.Name, ResourceType |-> sub.ResourceType,
     Namespace |-> sub.Namespace, Selector |-> sub.Selector, ID |-> sub.ID,
     Mode |-> sub.Mode, Data |-> "", Revision |-> ev.Revision, Error |-> NoError]

\* An event of the watch, stamped with the fields of the subscription.
Stamp(sub, ev) ==
    [Name |-> ev.Name, ResourceType |-> sub.ResourceType,
     Namespace |-> sub.Namespace, Selector |-> sub.Selector, ID |-> sub.ID,
     Mode |-> sub.Mode, Data |-> ev.Data, Revision |-> ev.Revision, Error |-> NoError]

\* The relay loop: what the pump of sub puts on the outbound channel for an
\* event ev taken from its channel (the upstream watch, or the debouncer's
\* output in notification mode).
Relay(sub, ev) ==
    IF ev.Error # NoError THEN ErrorEvent(ev) ELSE Stamp(sub, ev)

\* The notification-mode request of Test_stream.
NotificationSub ==
    Subscribe("watchable-resource", ScopeAll, SubscriptionModeNotification, FALSE)

\* What the pump of NotificationSub has put on the outbound channel once it
\* has taken the events in emitted from its debouncer: resource.start, then
\* the relay of each of them.
Outbound ==
    <<StartEvent(NotificationSub)>>
        \o [i \in 1..Len(emitted) |-> Relay(NotificationSub, emitted[i])]

\* The start-time checks of a pump, in order: schema, store, access
\* control, then the store's watch.
StreamError(sub, hasAccess, storeFails) ==
    IF sub.ResourceType \notin Schemas THEN "SchemaNotFound"
    ELSE IF sub.ResourceType \notin Watchable THEN "UnsupportedOperation"
    ELSE IF ~hasAccess THEN "Forbidden"
    ELSE IF storeFails THEN "StartFailure"
    ELSE "nil"

\* Mutant of WatchInvoked: the watch is opened before access is checked.
WatchInvokedBeforeAccess(sub, hasAccess) ==
    sub.ResourceType \in Watchable

\* The store's watch is invoked once the three checks before it have passed.
WatchInvoked(sub, hasAccess) ==
    StreamError(sub, hasAccess, TRUE) = "StartFailure"

\* The running pumps of watch key k whose context is not cancelled.
ActivePumps(k) ==
    { i \in 1..Len(pumps[k]) : ~pumps[k][i].cancelled }

\* The sequence s without its i-th element.
Remove(s, i) == SubSeq(s, 1, i - 1) \o SubSeq(s, i + 1, Len(s))

\* cancel() of every pump of the keys in ks.
CancelPumps(ks) ==
    [k \in Keys |->
        IF k \in ks
        THEN [i \in 1..Len(pumps[k]) |-> [pumps[k][i] EXCEPT !.cancelled = TRUE]]
        ELSE pumps[k]]

\* Mutant of WStart: resource.start is sent before the checks are made.
WStartEmitsBeforeChecks(sub, hasAccess, storeFails) ==
    /\ sessState = "open"
    /\ IF WatchKey(sub) \in watchers
       THEN /\ lastMsg' = "active"
            /\ UNCHANGED <<watchers, pumps, result, watchCalls>>
       ELSE /\ WatchInvoked(sub, hasAccess) => watchCalls < MaxPumps
            /\ lastMsg' = StreamError(sub, hasAccess, storeFails)
            /\ watchCalls' = IF WatchInvoked(sub, hasAccess) THEN watchCalls + 1 ELSE watchCalls
            /\ IF StreamError(sub, hasAccess, storeFails) = "nil"
               THEN /\ result' = [result EXCEPT ![WatchKey(sub)] = Append(@, StartEvent(sub))]
                    /\ watchers' = watchers \cup {WatchKey(sub)}
                    /\ pumps' = [pumps EXCEPT ![WatchKey(sub)] =
                                    Append(@, [sub |-> sub, cancelled |-> FALSE, got |-> <<>>])]
               ELSE /\ result' = [result EXCEPT ![WatchKey(sub)] = Append(@, StartEvent(sub))]
                    /\ UNCHANGED <<watchers, pumps>>
    /\ UNCHANGED <<taken, sessState, endVars, emitsStop, debVars, httpVars>>

\* Mutant of WStart: a pump is launched whether or not the key has one.
WStartAlways(sub, hasAccess, storeFails) ==
    /\ sessState = "open"
    /\ IF FALSE
       THEN /\ lastMsg' = "active"
            /\ UNCHANGED <<watchers, pumps, result, watchCalls>>
       ELSE /\ WatchInvoked(sub, hasAccess) => watchCalls < MaxPumps
            /\ lastMsg' = StreamError(sub, hasAccess, storeFails)
            /\ watchCalls' = IF WatchInvoked(sub, hasAccess) THEN watchCalls + 1 ELSE watchCalls
            /\ IF StreamError(sub, hasAccess, storeFails) = "nil"
               THEN /\ result' = [result EXCEPT ![WatchKey(sub)] = Append(@, StartEvent(sub))]
                    /\ watchers' = watchers \cup {WatchKey(sub)}
                    /\ pumps' = [pumps EXCEPT ![WatchKey(sub)] =
                                    Append(@, [sub |-> sub, cancelled |-> FALSE, got |-> <<>>])]
               ELSE UNCHANGED <<watchers, pumps, result>>
    /\ UNCHANGED <<taken, sessState, endVars, emitsStop, debVars, httpVars>>

\* start(request): a no-op when the key has a pump; otherwise the checks,
\* the store's watch, resource.start, and the pump is registered and launched.
\* hasAccess and storeFails are the answers of the collaborators.
WStart(sub, hasAccess, storeFails) ==
    /\ sessState = "open"
    /\ IF WatchKey(sub) \in watchers
       THEN /\ lastMsg' = "active"
            /\ UNCHANGED <<watchers, pumps, result, watchCalls>>
       ELSE /\ WatchInvoked(sub, hasAccess) => watchCalls < MaxPumps
            /\ lastMsg' = StreamError(sub, hasAccess, storeFails)
            /\ watchCalls' = IF WatchInvoked(sub, hasAccess) THEN watchCalls + 1 ELSE watchCalls
            /\ IF StreamError(sub, hasAccess, storeFails) = "nil"
               THEN /\ result' = [result EXCEPT ![WatchKey(sub)] = Append(@, StartEvent(sub))]
                    /\ watchers' = watchers \cup {WatchKey(sub)}
                    /\ pumps' = [pumps EXCEPT ![WatchKey(sub)] =
                                    Append(@, [sub |-> sub, cancelled |-> FALSE, got |-> <<>>])]
               ELSE UNCHANGED <<watchers, pumps, result>>
    /\ UNCHANGED <<taken, sessState, endVars, emitsStop, debVars, httpVars>>

\* Mutant of WStop: resource.stop is sent whether or not a pump matched.
WStopAlwaysEmits(sub, emitStop) ==
    /\ sessState = "open"
    /\ result' = [result EXCEPT ![WatchKey(sub)] = Append(@, StopEvent(sub))]
    /\ IF WatchKey(sub) \in watchers
       THEN /\ pumps' = CancelPumps({WatchKey(sub)})
            /\ watchers' = watchers \ {WatchKey(sub)}
            /\ lastMsg' = "stopped"
       ELSE /\ lastMsg' = "unmatched"
            /\ UNCHANGED <<watchers, pumps>>
    /\ UNCHANGED <<taken, watchCalls, sessState, endVars, emitsStop, debVars, httpVars>>

\* stop(request): cancels and unregisters the pump of the key, if any; the
\* session may then emit resource.stop (emitStop: whether this session does).
WStop(sub, emitStop) ==
    /\ sessState = "open"
    /\ IF WatchKey(sub) \in watchers
       THEN /\ pumps' = CancelPumps({WatchKey(sub)})
            /\ watchers' = watchers \ {WatchKey(sub)}
            /\ result' = IF emitStop
                         THEN [result EXCEPT ![WatchKey(sub)] = Append(@, StopEvent(sub))]
                         ELSE result
            /\ lastMsg' = "stopped"
       ELSE /\ lastMsg' = "unmatched"
            /\ UNCHANGED <<watchers, pumps, result>>
    /\ UNCHANGED <<taken, watchCalls, sessState, endVars, emitsStop, debVars, httpVars>>

\* The ends of a session: its maximum duration has passed, or the
\* connection was cancelled from outside.
Causes == {"expiry", "cancel"}

\* The terminal resource.stop of an expired session: no resource scope.
TerminalStop ==
    [Name |-> "resource.stop", ResourceType |-> "",
     Namespace |-> "", Selector |-> "", ID |-> "",
     Mode |-> SubscriptionModeDefault, Data |-> "", Revision |-> EmptyRV, Error |-> NoError]

\* close(), triggered by the lifecycle controller for the given cause:
\* cancels every pump and empties the map, then waits for the pumps.
WClose(cause) ==
    /\ sessState = "open"
    /\ pumps' = CancelPumps(Keys)
    /\ watchers' = {}
    /\ sessState' = "closing"
    /\ endedBy' = cause
    /\ lastMsg' = "none"
    /\ UNCHANGED <<result, taken, watchCalls, terminal, emitsStop, debVars, httpVars>>

\* Mutant of WClosed: close() returns without waiting for the pumps.
WClosedWithoutWaiting ==
    /\ sessState = "closing"
    /\ sessState' = "closed"
    /\ terminal' = IF endedBy = "expiry" THEN Append(terminal, TerminalStop) ELSE terminal
    /\ UNCHANGED <<watchers, pumps, result, taken, watchCalls, lastMsg, endedBy, emitsStop, debVars, httpVars>>

\* Mutant of WClosed: the terminal resource.stop is sent on every close.
WClosedAlwaysStop ==
    /\ sessState = "closing"
    /\ \A k \in Keys : pumps[k] = <<>>
    /\ sessState' = "closed"
    /\ terminal' = Append(terminal, TerminalStop)
    /\ UNCHANGED <<watchers, pumps, result, taken, watchCalls, lastMsg, endedBy, emitsStop, debVars, httpVars>>

\* ... every pump has finished: after expiry the terminal resource.stop is
\* sent, and the session stops accepting writes.
WClosed ==
    /\ sessState = "closing"
    /\ \A k \in Keys : pumps[k] = <<>>
    /\ sessState' = "closed"
    /\ terminal' = IF endedBy = "expiry" THEN Append(terminal, TerminalStop) ELSE terminal
    /\ UNCHANGED <<watchers, pumps, result, taken, watchCalls, lastMsg, endedBy, emitsStop, debVars, httpVars>>

\* Mutant of PumpRelay: an upstream error cancels every pump of the session.
PumpRelayErrorStopsAll(k, i, ev, coalesced) ==
    /\ i \in 1..Len(pumps[k])
    /\ ~pumps[k][i].cancelled
    /\ taken < MaxUpstream
    /\ taken' = taken + 1
    /\ coalesced => (pumps[k][i].sub.Mode = SubscriptionModeNotification /\ ev.Error = NoError)
    /\ pumps' = IF ev.Error # NoError
                THEN [CancelPumps(Keys) EXCEPT ![k] = Remove(@, i)]
                ELSE [pumps EXCEPT ![k][i].got = Append(@, ev)]
    /\ result' =
          IF coalesced THEN result
          ELSE IF pumps[k][i].sub.Mode = SubscriptionModeNotification /\ ev.Error = NoError
               THEN [result EXCEPT ![k] = Append(@, Relay(pumps[k][i].sub, Notification(ev.Revision)))]
               ELSE [result EXCEPT ![k] = Append(@, Relay(pumps[k][i].sub, ev))]
    /\ UNCHANGED <<watchers, watchCalls, lastMsg, sessState, endVars, emitsStop, debVars, httpVars>>

\* The relay loop of pump i of key k takes ev from the upstream watch.  In
\* notification mode the events pass through the pump's debouncer, which
\* emits a notification for some of them in order (see C12) and passes an
\* error event at once: coalesced says ev gets no notification of its own.
PumpRelay(k, i, ev, coalesced) ==
    /\ i \in 1..Len(pumps[k])
    /\ ~pumps[k][i].cancelled
    /\ taken < MaxUpstream
    /\ taken' = taken + 1
    /\ coalesced => (pumps[k][i].sub.Mode = SubscriptionModeNotification /\ ev.Error = NoError)
    /\ pumps' = IF ev.Error # NoError
                THEN [pumps EXCEPT ![k] = Remove(@, i)]
                ELSE [pumps EXCEPT ![k][i].got = Append(@, ev)]
    /\ result' =
          IF coalesced THEN result
          ELSE IF pumps[k][i].sub.Mode = SubscriptionModeNotification /\ ev.Error = NoError
               THEN [result EXCEPT ![k] = Append(@, Relay(pumps[k][i].sub, Notification(ev.Revision)))]
               ELSE [result EXCEPT ![k] = Append(@, Relay(pumps[k][i].sub, ev))]
    /\ UNCHANGED <<watchers, watchCalls, lastMsg, sessState, endVars, emitsStop, debVars, httpVars>>

\* Mutant of PumpDrain: a cancelled pump still relays what it reads.
PumpDrainRelays(k, i, ev) ==
    /\ i \in 1..Len(pumps[k])
    /\ pumps[k][i].cancelled
    /\ taken < MaxUpstream
    /\ taken' = taken + 1
    /\ pumps' = [pumps EXCEPT ![k][i].got = Append(@, ev)]
    /\ result' = [result EXCEPT ![k] = Append(@, Relay(pumps[k][i].sub, ev))]
    /\ UNCHANGED <<watchers, watchCalls, lastMsg, sessState, endVars, emitsStop, debVars, httpVars>>

\* A cancelled pump keeps reading the upstream watch and discards.
PumpDrain(k, i, ev) ==
    /\ i \in 1..Len(pumps[k])
    /\ pumps[k][i].cancelled
    /\ taken < MaxUpstream
    /\ taken' = taken + 1
    /\ pumps' = [pumps EXCEPT ![k][i].got = Append(@, ev)]
    /\ UNCHANGED <<watchers, result, watchCalls, lastMsg, sessState, endVars, emitsStop, debVars, httpVars>>

\* The upstream watch is closed: the pump ends, emitting nothing, and is
\* not counted among the running pumps any more.
PumpUpstreamClosed(k, i) ==
    /\ i \in 1..Len(pumps[k])
    /\ pumps' = [pumps EXCEPT ![k] = Remove(@, i)]
    /\ UNCHANGED <<watchers, result, taken, watchCalls, lastMsg, sessState, endVars, emitsStop, debVars, httpVars>>

WInit ==
    /\ variant = LastWriteWins
    /\ InitDebouncer
    /\ ~ctxDone
    /\ inCap = 0
    /\ InitSession
    /\ ChainIdle /\ CacheIdle /\ WriterIdle /\ RouteIdle

WNext ==
    \/ \E sub \in StartRequests, hasAccess \in BOOLEAN, storeFails \in BOOLEAN :
          WStart(sub, hasAccess, storeFails)
    \/ \E sub \in StopRequests : WStop(sub, emitsStop)
    \/ \E cause \in Causes : WClose(cause)
    \/ WClosed
    \/ \E k \in Keys, i \in 1..MaxPumps, ev \in UpEvents, coalesced \in BOOLEAN :
          PumpRelay(k, i, ev, coalesced)
    \/ \E k \in Keys, i \in 1..MaxPumps, ev \in UpEvents : PumpDrain(k, i, ev)
    \/ \E k \in Keys, i \in 1..MaxPumps : PumpUpstreamClosed(k, i)

WSpec == WInit /\ [][WNext]_vars

\* ---- middleware chain (pkg/middleware/middleware.go) -------------------

\* The debouncer and the watch session at rest, for the specifications of
\* the HTTP helpers, which use neither.
AtRest ==
    /\ variant = LastWriteWins
    /\ InitDebouncer
    /\ ~ctxDone
    /\ ~ctxAtRun
    /\ inCap = 0
    /\ InitSession
    /\ ~emitsStop

\* The middleware a chain is made of.  Each is a MiddlewareFunc of the shape
\* the tests use: the handler it returns records "<name>-before", calls the
\* handler it wraps and records "<name>-after".
Middlewares == {"middleware1", "middleware2", "middleware3"}

\* Sequences over S of length lo..hi.
SeqsOf(S, lo, hi) == UNION {[1..n -> S] : n \in lo..hi}

Chains == SeqsOf(Middlewares, 0, MaxChain)

\* rtn := handler.  A handler is written as the sequence of the middleware
\* wrapped around the original handler, outermost first; <<>> is the
\* original handler itself.  Go's i runs from len(m)-1 down to 0, idx from
\* Len(chain) down to 1.
ChainInit ==
    /\ chain \in Chains
    /\ idx = Len(chain)
    /\ rtn = <<>>
    /\ cpc = "build"
    /\ todo = <<>>
    /\ stack = <<>>
    /\ executionOrder = <<>>
    /\ AtRest /\ CacheIdle /\ WriterIdle /\ RouteIdle

\* A wrong loop: the middleware is wrapped the other way round.
HandlerLoopInnermost ==
    /\ cpc = "build"
    /\ idx >= 1
    /\ rtn' = Append(rtn, chain[idx])
    /\ idx' = idx - 1
    /\ UNCHANGED <<chain, cpc, todo, stack, executionOrder, cacheVars, ctVars, routeVars, debVars, sessVars>>

\* One iteration of the loop of Chain.Handler: w := m[i]; rtn = w(rtn).
HandlerLoop ==
    /\ cpc = "build"
    /\ idx >= 1
    /\ rtn' = <<chain[idx]>> \o rtn
    /\ idx' = idx - 1
    /\ UNCHANGED <<chain, cpc, todo, stack, executionOrder, cacheVars, ctVars, routeVars, debVars, sessVars>>

\* The loop ends and Chain.Handler returns rtn; the caller serves a request
\* with it.
HandlerReturn ==
    /\ cpc = "build"
    /\ idx < 1
    /\ cpc' = "serve"
    /\ todo' = rtn
    /\ UNCHANGED <<chain, idx, rtn, stack, executionOrder, cacheVars, ctVars, routeVars, debVars, sessVars>>

\* The handler a middleware returned is called: it records its entry and
\* calls the handler it wraps.
MiddlewareBefore ==
    /\ cpc = "serve"
    /\ todo # <<>>
    /\ executionOrder' = Append(executionOrder, <<Head(todo), "before">>)
    /\ stack' = <<Head(todo)>> \o stack
    /\ todo' = Tail(todo)
    /\ UNCHANGED <<chain, idx, rtn, cpc, cacheVars, ctVars, routeVars, debVars, sessVars>>

\* The original handler is called, records itself and returns.
ServeHandler ==
    /\ cpc = "serve"
    /\ todo = <<>>
    /\ executionOrder' = Append(executionOrder, <<"handler", "call">>)
    /\ cpc' = "return"
    /\ UNCHANGED <<chain, idx, rtn, todo, stack, cacheVars, ctVars, routeVars, debVars, sessVars>>

\* The handler a middleware called has returned: the middleware records its
\* exit and returns.
MiddlewareAfter ==
    /\ cpc = "return"
    /\ stack # <<>>
    /\ executionOrder' = Append(executionOrder, <<Head(stack), "after">>)
    /\ stack' = Tail(stack)
    /\ UNCHANGED <<chain, idx, rtn, cpc, todo, cacheVars, ctVars, routeVars, debVars, sessVars>>

\* The outermost handler has returned.
ServeDone ==
    /\ cpc = "return"
    /\ stack = <<>>
    /\ cpc' = "done"
    /\ UNCHANGED <<chain, idx, rtn, todo, stack, executionOrder, cacheVars, ctVars, routeVars, debVars, sessVars>>

ChainNext ==
    \/ HandlerLoop
    \/ HandlerReturn
    \/ MiddlewareBefore
    \/ ServeHandler
    \/ MiddlewareAfter
    \/ ServeDone

ChainSpec == ChainInit /\ [][ChainNext]_vars

\* ---- Cache middleware (pkg/middleware/cache.go) ------------------------

\* The characters of paths and suffixes: the dot, a lower-case letter and
\* the same letter in upper case.  A string is a sequence of characters.
Chars == {".", "j", "J"}

Paths == SeqsOf(Chars, 0, MaxPath)
SuffixStrings == SeqsOf(Chars, 0, MaxSuffixLen)

CacheControlValue == "max-age=31536000, public"

\* The response may reach Cache with a Cache-Control header or without.
CacheInit ==
    /\ path \in Paths
    /\ suffixes \in SeqsOf(SuffixStrings, 0, MaxSuffixes)
    /\ cacheControl \in {"", "no-cache"}
    /\ handlerCalls = 0
    /\ kpc = "call"
    /\ AtRest /\ ChainIdle /\ WriterIdle /\ RouteIdle

\* The index of the first occurrence of c in s.
FirstIndex(s, c) ==
    IF \E i \in 1..Len(s) : s[i] = c
    THEN CHOOSE i \in 1..Len(s) : s[i] = c /\ \A j \in 1..(i - 1) : s[j] # c
    ELSE 0

\* strings.LastIndex(s, c), counted from 1: 0 where Go returns -1.
RECURSIVE LastIndex(_, _)
LastIndex(s, c) ==
    IF s = <<>> THEN 0
    ELSE IF s[Len(s)] = c THEN Len(s)
    ELSE LastIndex(SubSeq(s, 1, Len(s) - 1), c)

\* The handler Cache returns serves one request: the loop over the suffixes
\* sets the header for each suffix equal to r.URL.Path[i+1:], then the
\* wrapped handler is called.
Cache ==
    /\ kpc = "call"
    /\ LET i == LastIndex(path, ".") IN
        cacheControl' =
            IF i >= 1 /\ \E n \in 1..Len(suffixes) : suffixes[n] = SubSeq(path, i + 1, Len(path))
            THEN CacheControlValue
            ELSE cacheControl
    /\ handlerCalls' = handlerCalls + 1
    /\ kpc' = "done"
    /\ UNCHANGED <<path, suffixes, chainVars, ctVars, routeVars, debVars, sessVars>>

CacheNext == Cache

CacheSpec == CacheInit /\ [][CacheNext]_vars

\* ---- ContentTypeWriter (pkg/middleware, content type) -----------------

\* The bytes a handler writes, by how http.DetectContentType reads them:
\* white space, an HTML tag, a printable character and a binary byte.
Bytes == {" ", "<html>", "a", "NUL"}

Chunks == SeqsOf(Bytes, 0, MaxChunk)

TextHTML == "text/html; charset=utf-8"
TextPlain == "text/plain; charset=utf-8"
OctetStream == "application/octet-stream"

\* The values a handler gives the header itself.  Header.Get returns "" for
\* a header that is absent and for one whose value is empty, and ctHeader
\* holds what Header.Get returns.
PresetTypes == {"application/json; charset=utf-8", ""}

\* The data behind its leading white space.
RECURSIVE SkipWS(_)
SkipWS(b) == IF b # <<>> /\ Head(b) = " " THEN SkipWS(Tail(b)) ELSE b

\* http.DetectContentType: an HTML tag behind leading white space makes the
\* data HTML; data without a binary byte, the empty data included, is plain
\* text; anything else is an octet stream.  The result is never empty.
DetectContentType(b) ==
    LET data == SkipWS(b) IN
    IF data # <<>> /\ Head(data) = "<html>" THEN TextHTML
    ELSE IF \A i \in 1..Len(data) : data[i] # "NUL" THEN TextPlain
    ELSE OctetStream

\* ContentType wraps the response writer of a request in a
\* ContentTypeWriter; nothing is set or written yet.
WriterInit ==
    /\ ctHeader = ""
    /\ body = <<>>
    /\ writes = <<>>
    /\ presetCT = "none"
    /\ AtRest /\ ChainIdle /\ CacheIdle /\ RouteIdle

\* The handler calls w.Header().Set("Content-Type", v), before its first
\* write or between two writes.
HandlerSetsHeader(v) ==
    /\ presetCT = "none"
    /\ ctHeader' = v
    /\ presetCT' = v
    /\ UNCHANGED <<body, writes, chainVars, cacheVars, routeVars, debVars, sessVars>>

\* A wrong Write: the header is set from every write.
WriteAlwaysDetects(b) ==
    /\ Len(writes) < MaxWrites
    /\ ctHeader' = DetectContentType(b)
    /\ body' = body \o b
    /\ writes' = Append(writes, b)
    /\ UNCHANGED <<presetCT, chainVars, cacheVars, routeVars, debVars, sessVars>>

\* ContentTypeWriter.Write(b); the wrapped ResponseWriter appends what it
\* is given to the body.
Write(b) ==
    /\ Len(writes) < MaxWrites
    /\ LET found == ctHeader # "" IN
        ctHeader' = IF ~found THEN DetectContentType(b) ELSE ctHeader
    /\ body' = body \o b
    /\ writes' = Append(writes, b)
    /\ UNCHANGED <<presetCT, chainVars, cacheVars, routeVars, debVars, sessVars>>

WriterNext ==
    \/ \E v \in PresetTypes : HandlerSetsHeader(v)
    \/ \E b \in Chunks : Write(b)

WriterSpec == WriterInit /\ [][WriterNext]_vars

\* ---- route variables (pkg/parse/router.go) ----------------------------

RouteKeys == {"id", "new"}
RouteValues == {"initial", "modified", "value"}
Absent == "absent"

\* A RouteVars value: a Go map is nil or holds a value for some of the keys.
\* Maps live in the heap and are passed by reference; reference 1 is the
\* map of the caller of SetRouteVars.
NilVars == [isNil |-> TRUE, kv |-> [k \in RouteKeys |-> Absent]]
EmptyVars == [isNil |-> FALSE, kv |-> [k \in RouteKeys |-> Absent]]
CallerMaps == {NilVars} \cup {[isNil |-> FALSE, kv |-> f] : f \in [RouteKeys -> RouteValues \cup {Absent}]}

\* What reading a map yields: the value of each key it holds.  A nil map
\* reads as an empty one.
Contents(m) == m.kv

\* The caller holds a map; the request has no route variables yet.
RouteInit ==
    /\ heap \in {<<m>> : m \in CallerMaps}
    /\ reqCtx = 0
    /\ passedIn = NilVars
    /\ got = 0
    /\ AtRest /\ ChainIdle /\ CacheIdle /\ WriterIdle

\* maps.Clone(m): a new map with the entries of m; nil for nil.
Clone(m) == [isNil |-> m.isNil, kv |-> [k \in RouteKeys |-> m.kv[k]]]

\* A wrong SetRouteVars: the caller's map itself is put into the context.
SetRouteVarsNoCopy ==
    /\ reqCtx = 0
    /\ reqCtx' = 1
    /\ passedIn' = heap[1]
    /\ UNCHANGED <<heap, got, chainVars, cacheVars, ctVars, debVars, sessVars>>

\* SetRouteVars(r, vars) with the caller's map: the clone is a new map in
\* the heap, and the returned request's context refers to it.
SetRouteVars ==
    /\ reqCtx = 0
    /\ heap' = Append(heap, Clone(heap[1]))
    /\ reqCtx' = Len(heap) + 1
    /\ passedIn' = heap[1]
    /\ UNCHANGED <<got, chainVars, cacheVars, ctVars, debVars, sessVars>>

\* The caller changes or adds a key of its own map (an assignment to a key
\* of a nil map panics).
CallerAssigns(k, v) ==
    /\ ~heap[1].isNil
    /\ heap' = [heap EXCEPT ![1].kv[k] = v]
    /\ UNCHANGED <<reqCtx, passedIn, got, chainVars, cacheVars, ctVars, debVars, sessVars>>

\* The caller deletes a key of its own map.
CallerDeletes(k) ==
    /\ heap' = [heap EXCEPT ![1].kv[k] = Absent]
    /\ UNCHANGED <<reqCtx, passedIn, got, chainVars, cacheVars, ctVars, debVars, sessVars>>

\* GetRouteVars(r): the map in the request's context, itself and not a
\* copy; a new empty map for a request without route variables.
GetRouteVars ==
    /\ IF reqCtx # 0
       THEN /\ got' = reqCtx
            /\ UNCHANGED heap
       ELSE /\ got = 0
            /\ heap' = Append(heap, EmptyVars)
            /\ got' = Len(heap) + 1
    /\ UNCHANGED <<reqCtx, passedIn, chainVars, cacheVars, ctVars, debVars, sessVars>>

RouteNext ==
    \/ SetRouteVars
    \/ \E k \in RouteKeys, v \in RouteValues : CallerAssigns(k, v)
    \/ \E k \in RouteKeys : CallerDeletes(k)
    \/ GetRouteVars

RouteSpec == RouteInit /\ [][RouteNext]_vars

\* ---- properties -------------------------------------------------------

NoErrorIn(s) == \A i \in 1..Len(s) : s[i].Error = NoError
HasError(s) == \E i \in 1..Len(s) : s[i].Error # NoError

\* C1: when a run ends because the input channel was closed (no
\* cancellation, no error event), the last notification emitted before the
\* output closed carries the revision of the last input event.
C1_LastEmittedIsLastInput ==
    (pc = "done" /\ inClosed /\ ~ctxDone /\ Sent # <<>> /\ NoErrorIn(Sent))
        => (emitted # <<>> /\ Last(emitted).Revision = Last(Sent).Revision)

\* The producer wants to write, the input channel has no room and no
\* receiver will ever come: Run has returned.
ProducerBlockedForever ==
    /\ ~inClosed
    /\ Len(inCh) = inCap
    /\ pc = "done"

\* C2: after the cancellation signal has fired, Run keeps receiving from
\* the input channel until the producer closes it, so that a write of the
\* producer never blocks for good.
C2_InputDrainedAfterCancel ==
    (ctxDone /\ NoErrorIn(received)) => ~ProducerBlockedForever

\* C3: when Run is started with an already-cancelled context, it does not
\* return, and the output channel is not closed, while the input channel
\* is still open.
C3_CancelledRunWaitsForInputClose ==
    (ctxAtRun /\ ~inClosed) => (pc # "done" /\ ~outClosed)

\* C4: if the cancellation signal fired before Run had received any input
\* event, no event is ever emitted on the output.
C4_NoEmissionAfterEarlyCancel ==
    (ctxDone /\ rcvdAtCancel = 0) => emitted = <<>>

\* C5: cancellation never leaves Run blocked: when the context is cancelled
\* while Run is blocked in a send on the output channel whose consumer has
\* stopped reading, Run has a step to take.
C5_CancelWakesBlockedSend ==
    (pc \in SendPcs /\ ~reading /\ ctxDone /\ ~ctxAtRun /\ rcvdAtCancel = Len(received))
        => ENABLED Run

\* C6: the first non-error event Run receives is sent on the output at once
\* with that event's revision: the timer is not armed, and no further
\* input is received before the consumer has taken the notification.
C6_FirstEmittedImmediately ==
    /\ (received # <<>> /\ received[1].Error = NoError /\ emitted = <<>>)
          => /\ pc = "sendFirst"
             /\ outVal = Notification(received[1].Revision)
             /\ Len(received) = 1
             /\ timer = "stopped"
             /\ armed = 0
    /\ (received # <<>> /\ received[1].Error = NoError /\ emitted # <<>>)
          => emitted[1] = Notification(received[1].Revision)

C6_Witness ==
    /\ Len(received) >= 2
    /\ received[1].Error = NoError
    /\ received[1].Revision # EmptyRV
    /\ Len(emitted) = 1
    /\ emitted[1] = Notification(received[1].Revision)

\* C7: in the last-write-wins debouncer an event received while the timer
\* is running is not emitted and only replaces the pending value; the
\* window yields exactly one notification, sent when the timer has fired,
\* whose revision is that of the most recently received event.
C7_WindowMergedLastWriteWins ==
    /\ [](pc = "sendTimer" => outVal = Notification(Last(received).Revision))
    /\ []((state = TimerStarted /\ NoErrorIn(received)) => Len(emitted) = armed)
    /\ []((state = TimerStopped /\ NoErrorIn(received) /\ pc # "sendFirst")
             => Len(emitted) = armed + 1)
    /\ [][(state = TimerStarted /\ received' # received /\ Last(received').Error = NoError)
             => /\ emitted' = emitted
                /\ pc' = "select"
                /\ state' = TimerStarted
                /\ armed' = armed
                /\ latestRV' = Last(received').Revision]_vars
    /\ [][(state = TimerStarted /\ emitted' # emitted /\ pc = "sendTimer")
             => /\ emitted' = Append(emitted, Notification(Last(received).Revision))
                /\ state' = TimerStopped
                /\ timer' = "stopped"]_vars

C7_Witness ==
    /\ pc = "sendTimer"
    /\ Len(received) = 3
    /\ armed = 1
    /\ received[2].Revision # received[3].Revision
    /\ outVal = Notification(received[3].Revision)

\* C8: a burst of N >= 2 non-error events all received before the first
\* timer expiry, the input being closed only after that expiry, yields
\* exactly two notifications, with the first and the last revision, and then
\* the output is closed.
C8_BurstYieldsFirstAndLast ==
    (/\ pc = "done"
     /\ ~ctxDone
     /\ NoErrorIn(received)
     /\ Len(received) >= 2
     /\ rcvdAtExpire = Len(received)
     /\ closedAfterExpire)
        => /\ outClosed
           /\ emitted = <<Notification(received[1].Revision),
                          Notification(Last(received).Revision)>>

\* C9: once the input channel is closed, and as long as the consumer keeps
\* reading, Run eventually closes its output channel.
C9_OutputEventuallyClosed ==
    inClosed ~> (outClosed \/ ~reading)

C9_Witness ==
    /\ outClosed
    /\ inClosed
    /\ reading
    /\ ~ctxDone
    /\ state = FirstNotification
    /\ received = <<>>

\* C10: an error event received in any state is forwarded, error preserved,
\* as the next and last output event: no pending notification is emitted,
\* the running timer is not waited for, and the output is closed.
C10_ErrorForwardedLast ==
    /\ [](HasError(received)
            => /\ Last(received).Error # NoError
               /\ pc \in {"sendErr", "done"}
               /\ outVal.Error = Last(received).Error
               /\ outVal.Revision = Last(received).Revision
               /\ outVal.Data = Last(received).Data)
    /\ []((HasError(received) /\ pc = "done") => (outClosed /\ Last(emitted) = outVal))
    /\ [][(received' # received /\ Last(received').Error # NoError)
             => (emitted' = emitted /\ pc' = "sendErr")]_vars
    /\ [][(pc = "sendErr" /\ emitted' # emitted)
             => (emitted' = Append(emitted, outVal) /\ pc' = "done" /\ outClosed')]_vars

C10_Witness ==
    /\ pc = "done"
    /\ HasError(received)
    /\ state = TimerStarted
    /\ timer = "fired"
    /\ latestRV # Last(received).Revision
    /\ Last(emitted).Error = WatchError

Revisions(s) == [i \in 1..Len(s) |-> s[i].Revision]

\* a can be obtained from b by deleting elements.
RECURSIVE IsSubseq(_, _)
IsSubseq(a, b) ==
    IF a = <<>> THEN TRUE
    ELSE IF b = <<>> THEN FALSE
    ELSE IF Head(a) = Head(b) THEN IsSubseq(Tail(a), Tail(b))
    ELSE IsSubseq(a, Tail(b))

\* C12: in both variants the revisions emitted are, in order, a subsequence
\* of the revisions received: an emitted revision never belongs to an
\* earlier input than a revision emitted before it.
C12_EmittedIsSubsequence ==
    IsSubseq(Revisions(emitted), Revisions(received))

C12_Witness ==
    /\ variant = LastWriteWins
    /\ Len(received) = 3
    /\ Revisions(received) = <<1, 0, 2>>
    /\ Revisions(emitted) = <<1, 2>>

\* The notifications the queued variant owes for the events it received.
Notifications(s) == [i \in 1..Len(s) |-> Notification(s[i].Revision)]

\* C13: in the queued variant, when Run has ended because the input was
\* closed (no cancellation, no error event, the queue never full), every
\* event received has been emitted exactly once, in arrival order.
C13_QueuedNothingDropped ==
    (variant = Queued /\ pc = "done" /\ ~ctxDone /\ NoErrorIn(received))
        => emitted = Notifications(received)

WTypeOK ==
    /\ \A k \in Keys : Len(pumps[k]) <= MaxPumps
    /\ watchCalls <= MaxPumps
    /\ sessState \in {"open", "closing", "closed"}

\* C14: an error event of the upstream watch that went through the debouncer
\* of a notification-mode watch reaches the client as the last event of the
\* watch, named resource.error and carrying the error; nothing before it on
\* the outbound sequence is an error event.
C14_UpstreamErrorDelivered ==
    (HasError(received) /\ pc = "done")
        => /\ Last(Outbound).Name = "resource.error"
           /\ Last(Outbound).Error = Last(received).Error
           /\ Last(Outbound).Error # NoError
           /\ \A i \in 1..(Len(Outbound) - 1) :
                 Outbound[i].Error = NoError /\ Outbound[i].Name # "resource.error"

C14_Witness ==
    /\ HasError(received)
    /\ pc = "done"
    /\ Len(Outbound) >= 3
    /\ Outbound[2].Name = SubscriptionModeNotification
    /\ Last(Outbound).Name = "resource.error"
    /\ Last(Outbound).Error = WatchError

\* C19 as stated: in notification mode every event after resource.start is
\* named resource.changes, carries the mode and the resource type of the
\* subscription and has no data.
C19_AllAfterStartAreNotifications ==
    \A i \in 2..Len(Outbound) :
        /\ Outbound[i].Name = SubscriptionModeNotification
        /\ Outbound[i].Mode = SubscriptionModeNotification
        /\ Outbound[i].ResourceType = NotificationSub.ResourceType
        /\ Outbound[i].Data = ""

\* C19 amended: in notification mode every event after resource.start that
\* is not the error event of the upstream watch is named resource.changes,
\* carries the mode and the resource type of the subscription and has no
\* data, whatever name and data the upstream events had.
C19_NotificationsCarryNoData ==
    \A i \in 2..Len(Outbound) :
        Outbound[i].Error = NoError
            => /\ Outbound[i].Name = SubscriptionModeNotification
               /\ Outbound[i].Mode = SubscriptionModeNotification
               /\ Outbound[i].ResourceType = NotificationSub.ResourceType
               /\ Outbound[i].Data = ""

C19_Witness ==
    /\ Len(Outbound) >= 3
    /\ NoErrorIn(received)
    /\ \A i \in 1..Len(received) : received[i].Data # "" /\ received[i].Name # SubscriptionModeNotification
    /\ Outbound[1].Name = "resource.start"
    /\ Outbound[2].Name = SubscriptionModeNotification
    /\ Outbound[3].Data = ""

\* The errors a start request returns before any watch is opened.
SyncErrors == {"SchemaNotFound", "UnsupportedOperation", "Forbidden"}

\* C15: on the outbound sequence of a watch key every relayed event comes
\* after a resource.start of that key; resource.start carries the resource
\* type, namespace, selector and id of the subscription, a relayed event the
\* mode of a resource.start before it, and the resource.start of every
\* running pump has been sent.
C15_StartPrecedesRelayedEvents ==
    \A k \in Keys :
        /\ \A j \in 1..Len(result[k]) :
              result[k][j].Name = "resource.start" => WatchKey(result[k][j]) = k
        /\ \A j \in 1..Len(result[k]) :
              result[k][j].Name \notin {"resource.start", "resource.stop"}
                 => \E i \in 1..(j - 1) :
                       /\ result[k][i].Name = "resource.start"
                       /\ result[k][j].Error = NoError
                             => /\ WatchKey(result[k][j]) = WatchKey(result[k][i])
                                /\ result[k][j].Mode = result[k][i].Mode
        /\ \A n \in 1..Len(pumps[k]) :
              \E i \in 1..Len(result[k]) :
                  /\ result[k][i].Name = "resource.start"
                  /\ result[k][i].Mode = pumps[k][n].sub.Mode

C15_Witness ==
    \E k \in Keys :
        /\ k[3] = "test-ns"
        /\ Len(result[k]) = 3
        /\ result[k][1].Name = "resource.start"
        /\ result[k][1].Namespace = "test-ns"
        /\ result[k][2].Name = "resource.create"
        /\ result[k][3].Name = "resource.create"

\* C16: a start request that returns SchemaNotFound, UnsupportedOperation or
\* Forbidden puts nothing on the outbound sequence and registers no pump;
\* a request for a type without schema, for a schema whose store cannot
\* watch, or without access returns one of these errors.
C16_FailedStartLeavesNoTrace ==
    /\ \A sub \in StartRequests, hasAccess \in BOOLEAN, storeFails \in BOOLEAN :
          (sub.ResourceType \notin Schemas \/ sub.ResourceType \notin Watchable \/ ~hasAccess)
              => StreamError(sub, hasAccess, storeFails) \in SyncErrors
    /\ [][(lastMsg' # lastMsg /\ lastMsg' \in SyncErrors)
             => UNCHANGED <<result, pumps, watchers>>]_vars

C16_Witness ==
    /\ lastMsg = "UnsupportedOperation"
    /\ watchers # {}
    /\ \A k \in Keys : k[1] # "watchable-resource" => (result[k] = <<>> /\ pumps[k] = <<>>)

\* C17: a start request that access control denies does not invoke the
\* store's watch.
C17_DeniedStartOpensNoWatch ==
    [][(lastMsg' # lastMsg /\ lastMsg' = "Forbidden") => watchCalls' = watchCalls]_vars

C17_Witness ==
    /\ lastMsg = "Forbidden"
    /\ watchCalls = 1
    /\ \E k \in Keys : result[k] # <<>>

C20_OneActivePumpPerKey ==
    \A k \in Keys :
        /\ Cardinality(ActivePumps(k)) <= 1
        /\ ActivePumps(k) # {} => k \in watchers

C20_Witness ==
    \E k \in Keys :
        /\ Len(pumps[k]) = 2
        /\ pumps[k][1].cancelled
        /\ ActivePumps(k) = {2}

\* C21: a start request for a watch key that has an active pump changes
\* nothing: the store's watch is not invoked, no pump is launched, the map
\* and the outbound sequence stay as they are (a step that changes one of
\* them is not such a start).
C21_StartOnActiveKeyIsNoOp ==
    [][\/ UNCHANGED <<watchCalls, pumps, watchers, result>>
       \/ \A sub \in StartRequests :
             ActivePumps(WatchKey(sub)) # {}
                => \A hasAccess \in BOOLEAN, storeFails \in BOOLEAN :
                      ~WStart(sub, hasAccess, storeFails)]_vars

C21_Witness ==
    /\ lastMsg = "active"
    /\ watchCalls = 1
    /\ \E k \in Keys : ActivePumps(k) = {1} /\ pumps[k][1].got # <<>>

IsRelayed(ev) == ev.Name \notin {"resource.start", "resource.stop"}

\* C23: a stop request for a watch key that is in the map cancels the pumps
\* of the key and removes the key from the map; a cancelled pump that takes
\* a further event from its upstream watch puts nothing on the outbound
\* sequence, and while a key has no uncancelled pump no relayed or error
\* event is added for it.
C23_StoppedPumpEmitsNoMore ==
    /\ [][\A sub \in StopRequests :
            (WatchKey(sub) \in watchers /\ \E emitStop \in BOOLEAN : WStop(sub, emitStop))
                => /\ WatchKey(sub) \notin watchers'
                   /\ Len(pumps'[WatchKey(sub)]) = Len(pumps[WatchKey(sub)])
                   /\ \A i \in 1..Len(pumps'[WatchKey(sub)]) :
                         pumps'[WatchKey(sub)][i].cancelled]_vars
    /\ [][\/ result' = result
          \/ \A k \in Keys :
                /\ \A i \in 1..Len(pumps[k]) :
                      ~(/\ pumps[k][i].cancelled
                        /\ Len(pumps'[k]) = Len(pumps[k])
                        /\ pumps'[k][i].got # pumps[k][i].got)
                /\ (ActivePumps(k) = {} /\ result'[k] # result[k])
                      => (/\ Len(result'[k]) = Len(result[k]) + 1
                          /\ ~IsRelayed(Last(result'[k])))]_vars

C23_Witness ==
    \E k \in Keys :
        /\ k \notin watchers
        /\ lastMsg = "stopped"
        /\ Len(pumps[k]) = 1
        /\ pumps[k][1].cancelled
        /\ pumps[k][1].sub.Mode = SubscriptionModeDefault
        /\ Len(pumps[k][1].got) = 2
        /\ Len(result[k]) = 2
        /\ IsRelayed(result[k][2])

\* C24: close() cancels every pump and empties the map; the session stops
\* accepting writes only when every pump has finished, and from then on
\* nothing is put on the outbound sequences of the watch keys.
C24_CloseWaitsForPumps ==
    /\ [](sessState = "closed" => \A k \in Keys : pumps[k] = <<>>)
    /\ [](sessState # "open"
            => (watchers = {} /\ \A k \in Keys : ActivePumps(k) = {}))
    /\ [][(sessState = "open" /\ sessState' # "open")
             => /\ watchers' = {}
                /\ \A k \in Keys :
                      /\ Len(pumps'[k]) = Len(pumps[k])
                      /\ \A i \in 1..Len(pumps'[k]) : pumps'[k][i].cancelled]_vars
    /\ [][sessState = "closed" => (result' = result /\ pumps' = pumps)]_vars

C24_Witness ==
    /\ sessState = "closed"
    /\ endedBy = "cancel"
    /\ taken = MaxUpstream
    /\ \E k \in Keys : Len(result[k]) = 2 /\ IsRelayed(result[k][2])

\* C25: a session that has ended by expiry has put exactly one terminal
\* event on the outbound channel, a resource.stop without resource scope,
\* after all its pumps have finished; a session that is open, is closing or
\* has ended by external cancellation has put none.
C25_TerminalStopOnlyOnExpiry ==
    /\ (sessState = "closed" /\ endedBy = "expiry")
          => /\ Len(terminal) = 1
             /\ terminal[1].Name = "resource.stop"
             /\ terminal[1].Error = NoError
             /\ WatchKey(terminal[1]) = <<"", "", "", "">>
    /\ (sessState # "closed" \/ endedBy # "expiry") => terminal = <<>>
    /\ endedBy \in Causes <=> sessState # "open"

C25_Witness ==
    /\ sessState = "closed"
    /\ endedBy = "expiry"
    /\ terminal # <<>>
    /\ \E k \in Keys : Len(result[k]) >= 2

\* C26: the step in which a pump delivers the error of its upstream watch
\* ends that pump and no other: the map, the session and the pumps of the
\* other keys stay as they are, and every pump that is running and not
\* cancelled can relay the next event of its upstream watch.
C26_ErrorEndsOnlyItsPump ==
    /\ [][\A k \in Keys :
            (result'[k] # result[k] /\ Last(result'[k]).Name = "resource.error")
                => /\ Len(pumps'[k]) = Len(pumps[k]) - 1
                   /\ \A k2 \in Keys \ {k} : pumps'[k2] = pumps[k2] /\ result'[k2] = result[k2]
                   /\ watchers' = watchers
                   /\ sessState' = sessState]_vars
    /\ [](\A k \in Keys : \A i \in ActivePumps(k) :
            taken < MaxUpstream => ENABLED PumpRelay(k, i, CreateEvent, FALSE))

C26_Witness ==
    \E k1 \in Keys, k2 \in Keys :
        /\ k1 # k2
        /\ result[k1] # <<>>
        /\ Last(result[k1]).Name = "resource.error"
        /\ pumps[k1] = <<>>
        /\ {k1, k2} \subseteq watchers
        /\ ActivePumps(k2) = {1}
        /\ taken < MaxUpstream

\* C27: Chain.Handler makes the first element of the chain the outermost
\* wrapper: serving a request with the handler built from m1..mn records
\* m1-before, ..., mn-before, handler, mn-after, ..., m1-after, at every
\* moment a prefix of that order, and for an empty chain the original
\* handler alone.
Reverse(sq) == [i \in 1..Len(sq) |-> sq[Len(sq) + 1 - i]]
ExpectedOrder(m) ==
    [i \in 1..Len(m) |-> <<m[i], "before">>]
       \o <<<<"handler", "call">>>>
       \o [i \in 1..Len(m) |-> <<Reverse(m)[i], "after">>]
IsPrefix(a, b) == Len(a) <= Len(b) /\ a = SubSeq(b, 1, Len(a))
C27_FirstMiddlewareIsOutermost ==
    /\ cpc \in {"serve", "return", "done"} => IsPrefix(executionOrder, ExpectedOrder(chain))
    /\ cpc = "done" => executionOrder = ExpectedOrder(chain)
    /\ (cpc = "done" /\ chain = <<>>) => executionOrder = <<<<"handler", "call">>>>
C27_Witness ==
    /\ cpc = "done"
    /\ Len(chain) = MaxChain
    /\ chain[1] # chain[Len(chain)]
    /\ executionOrder[1] = <<chain[1], "before">>
    /\ executionOrder[Len(executionOrder)] = <<chain[1], "after">>

\* C28: once Cache has served a request, Cache-Control is
\* "max-age=31536000, public" if and only if the path has a '.' and the
\* text after its last '.' is, character for character, one of the
\* configured suffixes; the wrapped handler has been called exactly once.
AfterLastDot(p) ==
    {SubSeq(p, i + 1, Len(p)) : i \in {n \in 1..Len(p) : p[n] = "." /\ \A j \in (n + 1)..Len(p) : p[j] # "."}}
C28_CacheControlIffSuffixMatches ==
    kpc = "done" =>
       /\ cacheControl = CacheControlValue
             <=> \E t \in AfterLastDot(path) : \E n \in 1..Len(suffixes) : suffixes[n] = t
       /\ handlerCalls = 1
C28_Witness ==
    /\ kpc = "done"
    /\ handlerCalls = 1
    /\ cacheControl = CacheControlValue
    /\ path = <<".", ".", "j">>
    /\ suffixes = <<<<"J">>, <<"j">>>>

\* C29: ContentTypeWriter.Write never changes a Content-Type header that
\* has a value: a value the handler gave the header is the header's value
\* after any sequence of writes; with no value from the handler the header
\* is what the first write's bytes are detected as, whatever later writes
\* carry; and the body is the concatenation of the bytes written.
RECURSIVE Flatten(_)
Flatten(ws) == IF ws = <<>> THEN <<>> ELSE Head(ws) \o Flatten(Tail(ws))
C30_RouteVarsAreCopied ==
    reqCtx # 0 =>
       /\ reqCtx # 1
       /\ Contents(heap[reqCtx]) = Contents(passedIn)
       /\ got \in {0, reqCtx} \/ Contents(heap[got]) = Contents(EmptyVars)
       /\ got = reqCtx => Contents(heap[got]) = Contents(passedIn)
C30_Witness ==
    /\ reqCtx # 0
    /\ got = reqCtx
    /\ Contents(passedIn) = [k \in RouteKeys |-> IF k = "id" THEN "initial" ELSE Absent]
    /\ Contents(heap[1]) = [k \in RouteKeys |-> IF k = "id" THEN "modified" ELSE "value"]
    /\ Contents(heap[got]) = Contents(passedIn)

\* C31: in the last-write-wins debouncer an event received while idle
\* (TimerStopped) is not emitted by the step that receives it: that step
\* arms the timer once, for one debounce interval from now, and Run goes
\* back to its select; a notification after the first is sent only from
\* the timer case, no earlier than the deadline of the timer, so that the
\* notifications after the first never outnumber the armed timers.
C31_IdleEventArmsTimer ==
    /\ [][(state = TimerStopped /\ received' # received /\ Last(received').Error = NoError)
             => /\ emitted' = emitted
                /\ pc' = "select"
                /\ state' = TimerStarted
                /\ timer' = "running"
                /\ armed' = armed + 1
                /\ deadline' = now + DebounceRate]_vars
    /\ [][(emitted # <<>> /\ emitted' # emitted /\ Last(emitted').Error = NoError)
             => /\ pc = "sendTimer"
                /\ state = TimerStarted
                /\ now >= deadline
                /\ Len(emitted') <= armed + 1]_vars
    /\ [](pc = "sendTimer" => (timer = "stopped" /\ now >= deadline))

C31_Witness ==
    /\ Len(received) = 2
    /\ NoErrorIn(received)
    /\ emittedAtRecv = <<0, 1>>
    /\ armed = 1
    /\ Len(emitted) = 2
    /\ emitted[2] = Notification(received[2].Revision)
    /\ emitAt[2] = deadline
    /\ emitAt[1] < emitAt[2]

\* C32: while the input channel stays open, the context is not cancelled and
\* the consumer keeps reading, every non-error event Run has received is
\* eventually followed by an emission, made after the event was received,
\* whose revision is that of the event or of an event received after it.
NotifiedSince(i) ==
    /\ Len(received) >= i
    /\ \E m \in (emittedAtRecv[i] + 1)..Len(emitted) :
          \E k \in i..Len(received) : emitted[m].Revision = received[k].Revision
C32_EveryEventEventuallyNotified ==
    \A i \in 1..MaxEvents :
        (Len(received) >= i /\ received[i].Error = NoError)
            ~> (inClosed \/ ctxDone \/ ~reading \/ NotifiedSince(i))

C32_Witness ==
    /\ ~inClosed /\ ~ctxDone /\ reading
    /\ Len(received) = 3
    /\ NoErrorIn(received)
    /\ emittedAtRecv = <<0, 1, 1>>
    /\ received[2].Revision # received[3].Revision
    /\ Len(emitted) = 2
    /\ NotifiedSince(2)
    /\ NotifiedSince(3)

\* C33: in the last-write-wins debouncer an event received while the timer
\* is running leaves the timer as it is: it is not armed again and its
\* deadline stays one debounce interval after the event that opened the
\* window, so that the deadline is never more than one interval ahead and,
\* once it is reached, the expiry and then the timer case can be taken
\* whatever has arrived since.
C33_RunningTimerNotRearmed ==
    /\ [][(state = TimerStarted /\ received' # received /\ Last(received').Error = NoError)
             => /\ timer' = timer
                /\ deadline' = deadline
                /\ armed' = armed
                /\ state' = TimerStarted]_vars
    /\ [](timer = "running" => deadline <= now + DebounceRate)
    /\ []((state = TimerStarted /\ pc = "select" /\ now >= deadline)
            => \/ timer = "running" /\ ENABLED TimerElapse
               \/ timer = "fired" /\ ENABLED TimerCase)

C33_Witness ==
    /\ Len(received) = 3
    /\ NoErrorIn(received)
    /\ emittedAtRecv = <<0, 1, 1>>
    /\ armed = 1
    /\ received[2].Revision # received[3].Revision
    /\ Len(emitted) = 2
    /\ emitted[2] = Notification(received[3].Revision)
    /\ emitAt[2] = deadline

\* The timer is armed: it is running, or it has expired and its value waits
\* in timer.C.
TimerArmed == timer \in {"running", "fired"}

\* The changes of Run's state: FirstNotification is left for TimerStopped,
\* and from then on the state alternates between TimerStopped and
\* TimerStarted.
StateAlternates ==
    [][state' # state
         => <<state, state'>> \in {<<FirstNotification, TimerStopped>>,
                                   <<TimerStopped, TimerStarted>>,
                                   <<TimerStarted, TimerStopped>>}]_vars

\* C34 as stated: in every reachable state of the last-write-wins debouncer
\* the timer is armed exactly when the state is TimerStarted, and the state
\* never returns to FirstNotification.
C34_TimerArmedIffStarted ==
    /\ [](TimerArmed <=> state = TimerStarted)
    /\ StateAlternates

\* C34 amended: in every reachable state of the last-write-wins debouncer
\* in which Run is not in the middle of sending the notification of the
\* timer case, the timer is armed exactly when the state is TimerStarted;
\* during that send the timer has expired and the state is still
\* TimerStarted; and the state never returns to FirstNotification.
C34_TimerArmedIffStartedOutsideSend ==
    /\ [](pc # "sendTimer" => (TimerArmed <=> state = TimerStarted))
    /\ [](pc = "sendTimer" => (~TimerArmed /\ state = TimerStarted))
    /\ StateAlternates

C34_Witness ==
    /\ pc = "select"
    /\ state = TimerStarted
    /\ timer = "running"
    /\ armed = 2
    /\ Len(emitted) = 2
    /\ Len(received) = 3

\* C35: the last-write-wins debouncer emits no spurious notification: the
\* events emitted never outnumber the events received, and every emission,
\* the one in progress in the timer case included, comes after an event
\* that was received after the emission before it.
C35_NoSpuriousNotification ==
    /\ Len(emitted) <= Len(received)
    /\ \A m \in 1..Len(emitted) :
          \E i \in 1..Len(received) : emittedAtRecv[i] = m - 1
    /\ pc = "sendTimer" => \E i \in 1..Len(received) : emittedAtRecv[i] = Len(emitted)

C35_Witness ==
    /\ pc = "select"
    /\ state = TimerStopped
    /\ Len(received) = 3
    /\ NoErrorIn(received)
    /\ emittedAtRecv = <<0, 1, 1>>
    /\ Len(emitted) = 2
    /\ timer = "stopped"
    /\ ~inClosed /\ ~ctxDone

\* C36: in both variants the output channel is closed exactly when Run has
\* left its loop: the step that closes it is the step that ends Run, after
\* it Run takes no step (no second close), the channel stays closed and
\* nothing more is emitted, whatever the input, the timer and the context
\* do.
C36_OutputClosedOnceAtExit ==
    /\ [](outClosed <=> pc = "done")
    /\ [](outClosed => (~ENABLED Run /\ ~ENABLED QRun))
    /\ [][outClosed => (outClosed' /\ emitted' = emitted /\ outVal' = outVal /\ pc' = pc)]_vars
    /\ [][outClosed' # outClosed => (pc \in {"select", "sendErr"} /\ pc' = "done")]_vars

C36_Witness ==
    /\ outClosed
    /\ pc = "done"
    /\ ctxDone
    /\ timer = "fired"
    /\ inCh # <<>>
    /\ Len(emitted) = 1
    /\ Len(received) = 2

\* C37: in the queued variant the timer is armed only while the queue holds
\* at least one event, so the timer case always finds an event to dequeue:
\* Run is never blocked in the receive from its queue.
C37_TimerArmedOnlyWithQueuedEvent ==
    /\ TimerArmed => Len(dbcQueueCh) >= 1
    /\ (pc = "select" /\ ENABLED QTimerCase) => dbcQueueCh # <<>>
    /\ pc # "recvQueue"

C37_Witness ==
    /\ variant = Queued
    /\ pc = "sendTimer"
    /\ Len(received) = 3
    /\ NoErrorIn(received)
    /\ outVal = Notification(received[2].Revision)
    /\ dbcQueueCh = <<Notification(received[3].Revision)>>
    /\ received[2].Revision # received[3].Revision

\* C38: in the queued variant Run is never blocked for good in the send on
\* its internal queue: whenever Run is in that send, it has a step to take.
C38_QueueSendNeverBlocks ==
    pc = "sendQueue" => ENABLED QRun
====
